---- MODULE Spec2Model ----
(***************************************************************************)
(* The drawing layer of flowingcharts/utils: the svg module (a retained    *)
(* tree of nodes with presentation attributes) and the canvas module (an   *)
(* immediate-mode 2d context painting into a pixel buffer), driven by a    *)
(* caller that holds one style descriptor and issues calls one at a time,  *)
(* to these two modules and to the dom module they are built on.           *)
(*                                                                         *)
(* Conventions.  A JavaScript number is the record Num(n); undefined and   *)
(* NaN are the records Undef and NaN.  Opacities are held in hundredths    *)
(* (Num(30) is 0.3).  A string-typed value that is undefined is the        *)
(* reserved string Undefined, which is no member of any domain of valid    *)
(* strings.  A colour string is a record of its format, its rgb triple     *)
(* and its embedded alpha (hundredths).  setAttribute stores the string    *)
(* form of what it is given; the model keeps the value whose decimal       *)
(* rendering that string is.                                               *)
(***************************************************************************)
EXTENDS Integers, Sequences, FiniteSets, TLC

VARIABLES
    svg,        \* the children of the svg surface, in document order
    attached,   \* whether the surface element is still a child of its container
    ctx,        \* the 2d context of the canvas: current path and paint properties
    pixels,     \* the canvas buffer: the paints made since it was last erased
    descriptor, \* the style descriptor the caller holds and passes to each call
    last,       \* the call made last: operation, arguments, outcome, context commands
    history,    \* the calls made on the surface of each backend since it was last cleared
    calls,      \* the number of calls the caller has still to make
    host,       \* what the document of the host answers to the capability probes
    selection,  \* the backend selected: "untested", "svg", "canvas" or "none"
    probes,     \* the isSupported calls made so far, in order
    answers,    \* what the queries of the selection returned, in order
    queries,    \* the number of queries and host changes still to come
    clock,      \* the time of the host, in ms: new Date().getTime()
    timers,     \* the timeouts of the host that are pending
    nextId,     \* the id the host gives to the next timeout
    lastTime,   \* lastTime of the dom module: the time the last frame was set for
    fired,      \* the animation callbacks invoked so far, in order
    cancels,    \* the ids cancelAnimation was given while their timeout was pending
    wait,       \* debounce(func, wait, immediate): the wait, in ms
    immediate,  \* debounce(func, wait, immediate): whether immediate is set
    timeout,    \* timeout of the closure debounce made: undefined, null or an id
    invoked,    \* the invocations of the function debounce returned, in order,
                \* each with whether a timeout of the host was pending then
    applied,    \* the invocations of func it made, in order
    heap,       \* the objects and arrays there are, by their address
    heap0,      \* the heap as it was when the util function was called
    given,      \* the arguments the util function is called with
    result,     \* what the util function returned
    pc          \* the caller of the util function: "ready", "done" or "mutated"

\* The state of the drawing layer and of its caller.
drawVars == <<svg, attached, ctx, pixels, descriptor, last, history, calls>>

\* The state of the backend selection.
selectVars == <<host, selection, probes, answers, queries>>

\* The clock and the timeouts of the host.
timerVars == <<clock, timers, nextId>>

\* The state of the animation polyfill and of its callbacks.
rafVars == <<lastTime, fired, cancels>>

\* The state outside the drawing layer.
\* The state of a debounced function.
debounceVars == <<wait, immediate, timeout, invoked, applied>>

\* The state of a call of extendObject or cloneObject.
objVars == <<heap, heap0, given, result, pc>>

utilVars == <<selectVars, timerVars, rafVars, debounceVars, objVars>>

vars == <<drawVars, utilVars>>

\* ---------------------------------------------------------------- bounds

\* The number of calls made in one run of the scene specification.
MaxCalls == 3

\* The number of calls made in one run of the style specification.
MaxStyleCalls == 1

\* The number of drawing calls made in one run of the selection specification.
MaxSelectCalls == 2

\* The number of queries and host changes in one run of the selection
\* specification.
MaxQueries == 3

\* The time of the host when a run starts, in ms.
Epoch == 1000

\* The number of ms a run lasts.
MaxTicks == 20

\* The number of requestAnimation calls made in one run.
MaxRequests == 3

\* The number of invocations of a debounced function in one run.
MaxInvocations == 3

\* The debounced function is observed for MaxDebounceTicks ms.
MaxDebounceTicks == 8

\* The numbers the util functions are given lie in -MaxNumber..MaxNumber.
MaxNumber == 25

\* ------------------------------------------------------------ JS values

Undef == [t |-> "undefined", v |-> 0]

NaN == [t |-> "NaN", v |-> 0]

Num(n) == [t |-> "number", v |-> n]

Undefined == "undefined"

\* arr[i] of a JavaScript array (0-based); undefined beyond its length.
At(arr, i) == IF i + 1 <= Len(arr) THEN Num(arr[i + 1]) ELSE Undef

\* ---------------------------------------------------------------- colour

NoColor == [fmt |-> "undefined", rgb |-> <<0, 0, 0>>, a |-> 0]

None == [fmt |-> "none", rgb |-> <<0, 0, 0>>, a |-> 0]

Hex(r, g, b) == [fmt |-> "hex", rgb |-> <<r, g, b>>, a |-> 0]

Rgba(r, g, b, a) == [fmt |-> "rgba", rgb |-> <<r, g, b>>, a |-> a]

\* A colour keyword, such as 'blue'.
Named(r, g, b) == [fmt |-> "name", rgb |-> <<r, g, b>>, a |-> 0]

\* colorUtil.toRGBA(c, opacity): the normalised 'rgba(r,g,b,a)' string of c.
\* The alpha is the opacity argument when one is given, else the alpha
\* embedded in c, else 1.
toRGBA(c, opacity) ==
    [fmt |-> "rgba",
     rgb |-> c.rgb,
     a   |-> IF opacity.t # "undefined" THEN opacity.v
             ELSE IF c.fmt = "rgba" THEN c.a
             ELSE 100]

\* ------------------------------------------------------------ descriptor

\* The style argument left out of the call.
NoStyle ==
    [isObject |-> FALSE, fillColor |-> NoColor, fillOpacity |-> Undef,
     lineColor |-> NoColor, lineWidth |-> Undef, lineJoin |-> Undefined,
     lineCap |-> Undefined, lineOpacity |-> Undef]

\* Every descriptor the caller may hold.
Styles ==
    [isObject    : {TRUE},
     fillColor   : {NoColor, Hex(255, 0, 0), Named(0, 0, 255), Rgba(255, 0, 0, 50)},
     fillOpacity : {Undef, Num(30)},
     lineColor   : {NoColor, Hex(0, 0, 0), Rgba(0, 0, 0, 50)},
     lineWidth   : {Undef, Num(0), Num(2), Num(-1), NaN},
     lineJoin    : {Undefined, "bevel"},
     lineCap     : {Undefined, "square"},
     lineOpacity : {Undef, Num(30)}]

\* {}
EmptyStyle ==
    [NoStyle EXCEPT !.isObject = TRUE]

\* {fillColor:'#ff0000', lineColor:'#000000', lineWidth:2}
RedOnBlack ==
    [EmptyStyle EXCEPT !.fillColor = Hex(255, 0, 0), !.lineColor = Hex(0, 0, 0),
                       !.lineWidth = Num(2)]

\* The descriptors of the scene specification.
SceneStyles == {NoStyle, EmptyStyle, RedOnBlack}

\* ------------------------------------------------------------------- dom

NumAttrNames ==
    {"cx", "cy", "r", "rx", "ry", "x", "y", "width", "height",
     "x1", "y1", "x2", "y2", "stroke-width"}

ColorAttrNames == {"fill", "stroke"}

StringAttrNames == {"stroke-linejoin", "stroke-linecap"}

AttrNames == NumAttrNames \cup ColorAttrNames \cup StringAttrNames \cup {"points"}

\* An attribute the element does not have, by the type of its value.
NoAttr == [t |-> "absent", v |-> 0]

NoColorAttr == [fmt |-> "absent", rgb |-> <<0, 0, 0>>, a |-> 0]

NoStringAttr == "absent"

NoPoints == [set |-> FALSE, str |-> <<>>]

\* dom.createSVGElement(type, undefined): a new element with no attribute
\* (dom.attr over an undefined attribute list sets nothing).  A node is held
\* with its nodeName, its attributes and, for a text node, its data.
createSVGElement(type) ==
    [type  |-> type,
     data  |-> "",
     attrs |-> [p \in AttrNames |->
                  CASE p \in NumAttrNames    -> NoAttr
                    [] p \in ColorAttrNames  -> NoColorAttr
                    [] p \in StringAttrNames -> NoStringAttr
                    [] OTHER                 -> NoPoints]]

\* dom.attr(element, attributes): setAttribute for every property given.
dom_attr(element, attributes) ==
    [element EXCEPT !.attrs =
        [p \in DOMAIN element.attrs |->
            IF p \in DOMAIN attributes THEN attributes[p] ELSE element.attrs[p]]]

\* appendChild putting the child before the last child, as
\* insertBefore(child, parent.lastChild) would.
dom_appendChild_beforeLast(children, child) ==
    IF children = <<>> THEN <<child>>
    ELSE SubSeq(children, 1, Len(children) - 1) \o <<child, children[Len(children)]>>

\* dom.appendChild(parentElement, childElement), on the parent's child list.
dom_appendChild(children, child) == Append(children, child)

\* dom.empty(element): removes the first child while there is one.
RECURSIVE dom_empty(_)
dom_empty(children) ==
    IF children # <<>> THEN dom_empty(Tail(children)) ELSE children

\* ------------------------------------------------------------------- svg

\* The separators getCoordsAsString writes between the numbers.
Comma == [t |-> ",", v |-> 0]

Space == [t |-> " ", v |-> 0]

\* The loop of getCoordsAsString from index i on, strPoints being built.
RECURSIVE CoordsLoop(_, _, _)
CoordsLoop(arrCoords, i, strPoints) ==
    IF i < Len(arrCoords)
    THEN CoordsLoop(arrCoords, i + 2,
            (IF i # 0 THEN Append(strPoints, Comma) ELSE strPoints)
            \o <<At(arrCoords, i), Space, At(arrCoords, i + 1)>>)
    ELSE strPoints

\* getCoordsAsString writing the comma after every pair instead of before
\* every pair but the first.
getCoordsAsString_commaAfter(arrCoords) ==
    LET strPoints == CoordsLoop(arrCoords, 0, <<>>)
    IN IF strPoints = <<>> THEN strPoints ELSE Append(strPoints, Comma)

\* getCoordsAsString(arrCoords): the string as the sequence of its tokens.
getCoordsAsString(arrCoords) == CoordsLoop(arrCoords, 0, <<>>)

\* What a call returns to the model: the exception it threw ("" for none)
\* and the element as the call left it.
SvgResult(threw, element) == [threw |-> threw, element |-> element]

\* draw of the svg module without the second resolution of the colours, the
\* one that applies the opacities.
svg_draw_noOpacity(element, style) ==
    IF ~style.isObject
    THEN SvgResult("TypeError", element)
    ELSE SvgResult("",
            dom_attr(element,
                ("fill" :> (IF style.fillColor # NoColor
                            THEN toRGBA(style.fillColor, Undef) ELSE None))
                @@ ("stroke" :> (IF style.lineColor # NoColor
                                 THEN toRGBA(style.lineColor, Undef) ELSE None))
                @@ ("stroke-width" :>
                        (IF style.lineWidth # Undef THEN style.lineWidth ELSE Num(1)))
                @@ ("stroke-linejoin" :>
                        (IF style.lineJoin # Undefined THEN style.lineJoin ELSE "round"))
                @@ ("stroke-linecap" :>
                        (IF style.lineCap # Undefined THEN style.lineCap ELSE "butt"))))

\* draw(element, style) of the svg module.
svg_draw(element, style) ==
    IF ~style.isObject
    THEN SvgResult("TypeError", element)
    ELSE
      LET fillColor0 == IF style.fillColor # NoColor
                        THEN toRGBA(style.fillColor, Undef) ELSE None
          fillColor  == IF fillColor0 # None /\ style.fillOpacity # Undef
                        THEN toRGBA(fillColor0, style.fillOpacity) ELSE fillColor0
          lineWidth  == IF style.lineWidth # Undef THEN style.lineWidth ELSE Num(1)
          lineJoin   == IF style.lineJoin # Undefined THEN style.lineJoin ELSE "round"
          lineCap    == IF style.lineCap # Undefined THEN style.lineCap ELSE "butt"
          lineColor0 == IF style.lineColor # NoColor
                        THEN toRGBA(style.lineColor, Undef) ELSE None
          lineColor  == IF lineColor0 # None /\ style.lineOpacity # Undef
                        THEN toRGBA(lineColor0, style.lineOpacity) ELSE lineColor0
      IN SvgResult("",
            dom_attr(element,
                ("fill" :> fillColor) @@ ("stroke" :> lineColor)
                @@ ("stroke-width" :> lineWidth)
                @@ ("stroke-linejoin" :> lineJoin)
                @@ ("stroke-linecap" :> lineCap)))

svg_circle(element, cx, cy, r, style) ==
    svg_draw(dom_attr(element, ("cx" :> cx) @@ ("cy" :> cy) @@ ("r" :> r)), style)

svg_ellipse(element, cx, cy, rx, ry, style) ==
    svg_draw(dom_attr(element,
                ("cx" :> cx) @@ ("cy" :> cy) @@ ("rx" :> rx) @@ ("ry" :> ry)), style)

svg_rect(element, x, y, w, h, style) ==
    svg_draw(dom_attr(element,
                ("x" :> x) @@ ("y" :> y) @@ ("width" :> w) @@ ("height" :> h)), style)

svg_line(element, x1, y1, x2, y2, style) ==
    svg_draw(dom_attr(element,
                ("x1" :> x1) @@ ("y1" :> y1) @@ ("x2" :> x2) @@ ("y2" :> y2)), style)

svg_polyline(element, arrCoords, style) ==
    svg_draw(dom_attr(element,
                "points" :> [set |-> TRUE, str |-> getCoordsAsString(arrCoords)]), style)

svg_polygon(element, arrCoords, style) ==
    svg_draw(dom_attr(element,
                "points" :> [set |-> TRUE, str |-> getCoordsAsString(arrCoords)]), style)

\* getContext(parentElement, type) of the svg module, on the parent's child list.
svg_getContext(children, type) == dom_appendChild(children, createSVGElement(type))

\* clear(element) of the svg module: its body is empty.
svg_clear(children) == children

\* empty(element) of the svg module.
svg_empty(children) == dom_empty(children)

\* ---------------------------------------------------------------- canvas

\* The control-point offset of the ellipse, 0.5522848, in units of 1/Scale.
Kappa == 5522848

\* The fixed point of the ellipse's path coordinates: seven decimals.
Scale == 10000000

\* One use of the 2d context: a method called with its numeric arguments, or
\* (cmd "set") a property assigned.
Cmd(name, prop, args) == [cmd |-> name, prop |-> prop, args |-> args]

\* The 2d context canvas.getContext('2d') gives for a new canvas: an empty
\* path and the host's default paint properties.
NewContext ==
    [path |-> <<>>, fillStyle |-> Hex(0, 0, 0), strokeStyle |-> Hex(0, 0, 0),
     lineWidth |-> Num(1), lineJoin |-> "miter", lineCap |-> "butt"]

\* A canvas function running: the context and the buffer as they are so far,
\* the context commands issued so far, whether draw(ctx, style) has been
\* entered, and the exception thrown ("" for none).
Running(c, px) ==
    [ctx |-> c, pixels |-> px, cmds |-> <<>>, drew |-> FALSE, threw |-> ""]

\* draw(ctx, style) entered.
Entered(m) == [m EXCEPT !.drew = TRUE]

Throw(m, error) == [m EXCEPT !.threw = error]

\* A method of the context that adds to the current path.
PathCmd(m, name, args) ==
    [m EXCEPT !.ctx.path = Append(@, Cmd(name, "", args)),
              !.cmds = Append(@, Cmd(name, "", args))]

\* beginPath leaving the current path as it is.
ctx_beginPath_keepsPath(m) ==
    [m EXCEPT !.cmds = Append(@, Cmd("beginPath", "", <<>>))]

ctx_beginPath(m) ==
    [m EXCEPT !.ctx.path = <<>>, !.cmds = Append(@, Cmd("beginPath", "", <<>>))]

ctx_closePath(m) == PathCmd(m, "closePath", <<>>)

ctx_moveTo(m, x, y) == PathCmd(m, "moveTo", <<x, y>>)

ctx_lineTo(m, x, y) == PathCmd(m, "lineTo", <<x, y>>)

ctx_rect(m, x, y, w, h) == PathCmd(m, "rect", <<x, y, w, h>>)

\* ctx.arc(cx, cy, r, 0, 2 * Math.PI, false): the full circle.
ctx_arc(m, cx, cy, r) == PathCmd(m, "arc", <<cx, cy, r>>)

ctx_bezierCurveTo(m, c1x, c1y, c2x, c2y, x, y) ==
    PathCmd(m, "bezierCurveTo", <<c1x, c1y, c2x, c2y, x, y>>)

\* ctx.<prop> = value.  The context ignores a lineWidth that is zero,
\* negative, infinite or NaN and keeps the width it had.
ctx_set(m, prop, value) ==
    LET ignored == prop = "lineWidth" /\ ~(value.t = "number" /\ value.v > 0)
    IN [m EXCEPT !.ctx = [p \in DOMAIN m.ctx |->
                            IF p = prop /\ ~ignored THEN value ELSE m.ctx[p]],
                 !.cmds = Append(@, Cmd("set", prop, <<>>))]

\* ctx.fill(): paints the inside of the current path with fillStyle.
ctx_fill(m) ==
    [m EXCEPT !.pixels = Append(@, [kind |-> "fill", path |-> m.ctx.path,
                                    color |-> m.ctx.fillStyle, lineWidth |-> Undef,
                                    lineJoin |-> Undefined, lineCap |-> Undefined]),
              !.cmds = Append(@, Cmd("fill", "", <<>>))]

\* ctx.stroke(): paints the outline of the current path with strokeStyle.
ctx_stroke(m) ==
    [m EXCEPT !.pixels = Append(@, [kind |-> "stroke", path |-> m.ctx.path,
                                    color |-> m.ctx.strokeStyle,
                                    lineWidth |-> m.ctx.lineWidth,
                                    lineJoin |-> m.ctx.lineJoin,
                                    lineCap |-> m.ctx.lineCap]),
              !.cmds = Append(@, Cmd("stroke", "", <<>>))]

\* ctx.clearRect(0, 0, canvas.width, canvas.height): erases the whole buffer.
ctx_clearRect(m) ==
    [m EXCEPT !.pixels = <<>>, !.cmds = Append(@, Cmd("clearRect", "", <<>>))]

\* The assignments draw makes before it strokes, and the stroke.
Stroked(m, style) ==
    LET w == ctx_set(m, "lineWidth",
               IF style.lineWidth # Undef THEN style.lineWidth ELSE Num(1))
        j == ctx_set(w, "lineJoin",
               IF style.lineJoin # Undefined THEN style.lineJoin ELSE "round")
        c == ctx_set(j, "lineCap",
               IF style.lineCap # Undefined THEN style.lineCap ELSE "butt")
        s == ctx_set(c, "strokeStyle",
               IF style.lineOpacity # Undef
               THEN toRGBA(style.lineColor, style.lineOpacity)
               ELSE toRGBA(style.lineColor, Undef))
    IN ctx_stroke(s)

\* The fill of draw: only with a fill colour.
DrawFill(m, style) ==
    IF style.fillColor # NoColor
    THEN ctx_fill(ctx_set(m, "fillStyle",
            IF style.fillOpacity # Undef
            THEN toRGBA(style.fillColor, style.fillOpacity)
            ELSE toRGBA(style.fillColor, Undef)))
    ELSE m

\* The stroke of draw: only with a line colour and a line width other than 0.
DrawStroke(m, style) ==
    IF style.lineColor # NoColor /\ style.lineWidth # Num(0)
    THEN Stroked(m, style)
    ELSE m

\* draw(ctx, style) of the canvas module.
canvas_draw(m, style) ==
    IF ~style.isObject
    THEN Throw(Entered(m), "TypeError")
    ELSE DrawStroke(DrawFill(Entered(m), style), style)

canvas_circle(m, cx, cy, r, style) ==
    canvas_draw(ctx_arc(ctx_beginPath(m), cx, cy, r), style)

\* ellipse with the horizontal offset used for the vertical one as well.
canvas_ellipse_oneOffset(m, cx, cy, rx, ry, style) ==
    LET x  == (cx - rx) * Scale
        y  == (cy - ry) * Scale
        xe == (cx + rx) * Scale
        ye == (cy + ry) * Scale
        ox == rx * Kappa
        mx == cx * Scale
        my == cy * Scale
        m0 == ctx_moveTo(ctx_beginPath(m), Num(x), Num(my))
        m1 == ctx_bezierCurveTo(m0, Num(x), Num(my - ox), Num(mx - ox), Num(y),
                                Num(mx), Num(y))
        m2 == ctx_bezierCurveTo(m1, Num(mx + ox), Num(y), Num(xe), Num(my - ox),
                                Num(xe), Num(my))
        m3 == ctx_bezierCurveTo(m2, Num(xe), Num(my + ox), Num(mx + ox), Num(ye),
                                Num(mx), Num(ye))
        m4 == ctx_bezierCurveTo(m3, Num(mx - ox), Num(ye), Num(x), Num(my + ox),
                                Num(x), Num(my))
    IN canvas_draw(m4, style)

\* The ellipse's coordinates are in units of 1/Scale.
canvas_ellipse(m, cx, cy, rx, ry, style) ==
    LET kappa == Kappa
        x  == (cx - rx) * Scale
        y  == (cy - ry) * Scale
        xe == (cx + rx) * Scale
        ye == (cy + ry) * Scale
        ox == rx * kappa
        oy == ry * kappa
        mx == cx * Scale
        my == cy * Scale
        m0 == ctx_moveTo(ctx_beginPath(m), Num(x), Num(my))
        m1 == ctx_bezierCurveTo(m0, Num(x), Num(my - oy), Num(mx - ox), Num(y),
                                Num(mx), Num(y))
        m2 == ctx_bezierCurveTo(m1, Num(mx + ox), Num(y), Num(xe), Num(my - oy),
                                Num(xe), Num(my))
        m3 == ctx_bezierCurveTo(m2, Num(xe), Num(my + oy), Num(mx + ox), Num(ye),
                                Num(mx), Num(ye))
        m4 == ctx_bezierCurveTo(m3, Num(mx - ox), Num(ye), Num(x), Num(my + oy),
                                Num(x), Num(my))
    IN canvas_draw(m4, style)

canvas_rect(m, x, y, w, h, style) ==
    canvas_draw(ctx_rect(ctx_beginPath(m), x, y, w, h), style)

canvas_line(m, x1, y1, x2, y2, style) ==
    canvas_draw(ctx_lineTo(ctx_moveTo(ctx_beginPath(m), x1, y1), x2, y2), style)

\* The loop of the canvas polyline from index i on.
RECURSIVE PolylineLoop(_, _, _)
PolylineLoop(m, arrCoords, i) ==
    IF i < Len(arrCoords)
    THEN LET x == At(arrCoords, i)
             y == At(arrCoords, i + 1)
         IN PolylineLoop(IF i = 0 THEN ctx_moveTo(m, x, y) ELSE ctx_lineTo(m, x, y),
                         arrCoords, i + 2)
    ELSE m

\* polyline(ctx, arrCoords, style) of the canvas module.  ctxIs is what the
\* first argument is: "context", or "array" for a coordinate list, which has
\* no beginPath method.
canvas_polyline(m, ctxIs, arrCoords, style) ==
    IF ctxIs # "context"
    THEN Throw(m, "TypeError")
    ELSE canvas_draw(PolylineLoop(ctx_beginPath(m), arrCoords, 0), style)

\* polygon(ctx, arrCoords, style) of the canvas module: it calls
\* polyline(arrCoords), the coordinate list in the place of the context.
canvas_polygon(m, arrCoords, style) ==
    LET traced == canvas_polyline(m, "array", <<>>, NoStyle)
    IN IF traced.threw # ""
       THEN traced
       ELSE canvas_draw(ctx_closePath(traced), style)

\* empty(canvas) of the canvas module.
canvas_empty(m) == ctx_clearRect(m)

\* clear(canvas) of the canvas module.
canvas_clear(m) == canvas_empty(m)

\* ------------------------------------------------------------- selection

\* What the document of a host answers: hasFeature for the svg shape feature,
\* and what getContext('2d') of a new canvas element gives: a context, null,
\* or nothing at all, the element of the host having no getContext method.
Hosts == [hasFeature : BOOLEAN, context2d : {"context", "null", "nomethod"}]

\* A host that supports both backends.
FullHost == [hasFeature |-> TRUE, context2d |-> "context"]

\* dom.isSupported(feature, version): document.implementation.hasFeature.
dom_isSupported(h) == h.hasFeature

\* isSupported() of the svg module.
svg_isSupported(h) == dom_isSupported(h)

\* isSupported() of the canvas module: !!getContext('2d') of a new canvas.
\* The call of a method the element does not have throws a TypeError.
canvas_isSupported(h) ==
    IF h.context2d = "nomethod"
    THEN [threw |-> "TypeError", value |-> FALSE]
    ELSE [threw |-> "", value |-> h.context2d # "null"]

\* The first query of the backend selection: the svg module is probed, and
\* the canvas module only when svg reports no support.  The result is the
\* selection, the probes made and what a probe threw: a probe that throws
\* ends the query with its error, and nothing is selected.
SelectBackend(h) ==
    IF svg_isSupported(h)
    THEN [selection |-> "svg", probed |-> <<"svg">>, threw |-> ""]
    ELSE IF canvas_isSupported(h).threw # ""
         THEN [selection |-> "untested", probed |-> <<"svg", "canvas">>,
               threw |-> canvas_isSupported(h).threw]
         ELSE IF canvas_isSupported(h).value
              THEN [selection |-> "canvas", probed |-> <<"svg", "canvas">>, threw |-> ""]
              ELSE [selection |-> "none", probed |-> <<"svg", "canvas">>, threw |-> ""]

\* ------------------------------------------------------------- animation

\* The frame length the polyfill aims at, in ms.
FrameMs == 16

Max(a, b) == IF a > b THEN a ELSE b

\* window.setTimeout(fn, delay) called at time now; id is the id the host
\* gives.  The timeout is pending until it fires or is cleared.
setTimeout(pending, id, fn, now, delay) ==
    pending \cup {[id |-> id, due |-> now + delay, fn |-> fn]}

\* clearTimeout(id): the pending timeout of that id, if any, is dropped.
clearTimeout(pending, id) == {x \in pending : x.id # id}

\* clearTimeout clearing every pending timeout.
caf_clearsAll(pending, id) == {}

\* The fallback raf without its assignment to lastTime.
raf_keepsLastTime(callback, currTime, lt, pending, id) ==
    LET timeToCall == Max(0, FrameMs - (currTime - lt))
    IN [id       |-> id,
        timers   |-> setTimeout(pending, id,
                        [callback |-> callback, arg |-> currTime + timeToCall],
                        currTime, timeToCall),
        lastTime |-> lt]

\* The raf the dom module defines when the host has none: the result is the
\* id returned, the timeouts pending after the call and the new lastTime.
raf(callback, currTime, lt, pending, id) ==
    LET timeToCall == Max(0, FrameMs - (currTime - lt))
    IN [id       |-> id,
        timers   |-> setTimeout(pending, id,
                        [callback |-> callback, arg |-> currTime + timeToCall],
                        currTime, timeToCall),
        lastTime |-> currTime + timeToCall]

\* The caf the dom module defines when the host has none.
caf(pending, id) == clearTimeout(pending, id)

\* requestAnimation(callback) of the dom module, on the polyfill.
requestAnimation(callback, currTime, lt, pending, id) ==
    raf(callback, currTime, lt, pending, id)

\* cancelAnimation(id) of the dom module, on the polyfill.
cancelAnimation(pending, id) == caf(pending, id)

\* -------------------------------------------------------------- debounce

Null == [t |-> "null", v |-> 0]

\* !timeout: undefined and null are falsy, an id of the host is not.
Falsy(tm) == tm.t \in {"undefined", "null"}

\* clearTimeout(timeout), timeout being undefined, null or an id.
ClearTimeoutOf(pending, tm) ==
    IF tm.t = "number" THEN clearTimeout(pending, tm.v) ELSE pending

\* The function debounce returns, without its clearTimeout(timeout).
debounced_noClear(me, args, w, imm, tm, pending, id, now) ==
    [timers  |-> setTimeout(pending, id, [me |-> me, args |-> args], now, w),
     timeout |-> Num(id),
     applied |-> IF imm /\ Falsy(tm) THEN <<[me |-> me, args |-> args]>> ELSE <<>>]

\* The function debounce(func, wait, immediate) returns, invoked with this
\* = me and arguments = args at time now: the timeouts pending after it, the
\* new timeout of the closure and the invocations of func it made.  The
\* closure later it sets as a timeout holds me and args.
debounced(me, args, w, imm, tm, pending, id, now) ==
    LET callNow == imm /\ Falsy(tm)
    IN [timers  |-> setTimeout(ClearTimeoutOf(pending, tm), id,
                       [me |-> me, args |-> args], now, w),
        timeout |-> Num(id),
        applied |-> IF callNow THEN <<[me |-> me, args |-> args]>> ELSE <<>>]

\* later without its timeout = null.
later_keepsTimeout(fn, imm, tm) ==
    [timeout |-> tm,
     applied |-> IF ~imm THEN <<[me |-> fn.me, args |-> fn.args]>> ELSE <<>>]

\* later(), run by the host when the timeout fires: fn is its closure.
later(fn, imm, tm) ==
    [timeout |-> Null,
     applied |-> IF ~imm THEN <<[me |-> fn.me, args |-> fn.args]>> ELSE <<>>]

\* --------------------------------------------------------------- objects

\* The property names of the object literals, and the property names of the
\* elements of an array, by index.
Keys == {"a", "b"}

IndexKeys == <<"0", "1">>

AllKeys == Keys \cup {IndexKeys[i] : i \in DOMAIN IndexKeys}

\* A property the object does not have.
Absent == [t |-> "absent", v |-> 0]

Bool(b) == [t |-> "boolean", v |-> IF b THEN 1 ELSE 0]

\* A reference to the object or array at an address of the heap.
Ref(address) == [t |-> "ref", v |-> address]

\* {} and [] as they are created.
NewObject ==
    [kind |-> "object", length |-> 0, time |-> 0, props |-> [k \in AllKeys |-> Absent]]

NewArray ==
    [kind |-> "array", length |-> 0, time |-> 0, props |-> [k \in AllKeys |-> Absent]]

\* new Date() with setTime(time)
NewDate(time) ==
    [kind |-> "date", length |-> 0, time |-> time, props |-> [k \in AllKeys |-> Absent]]

\* o.hasOwnProperty(key)
hasOwnProperty(o, key) == o.props[key] # Absent

\* o[key]: undefined for a property o does not have.
Get(o, key) == IF o.props[key] = Absent THEN Undef ELSE o.props[key]

\* o[key] = value, o being the object at address r: an array grows to hold
\* an index at or beyond its length.
Put(h, r, key, value) ==
    LET isIndex == \E i \in DOMAIN IndexKeys : IndexKeys[i] = key
        index   == CHOOSE i \in DOMAIN IndexKeys : IndexKeys[i] = key
    IN [h EXCEPT ![r].props[key] = value,
                 ![r].length = IF h[r].kind = "array" /\ isIndex THEN Max(@, index)
                               ELSE @]

\* The property names for (key in o) visits, in order.
KeysIn(o) ==
    LET IsIn(key) == hasOwnProperty(o, key)
    IN SelectSeq(<<"a", "b", "0", "1">>, IsIn)

\* The loop of extendObject over the keys still to visit.
RECURSIVE ExtendLoop(_, _, _, _, _)
ExtendLoop(h, objA, objB, overwriteProperties, keys) ==
    IF keys = <<>> THEN h
    ELSE LET key == Head(keys)
             h1  == IF hasOwnProperty(h[objB], key)
                    THEN IF overwriteProperties = Bool(FALSE)
                         THEN IF Get(h[objA], key) = Undef
                              THEN Put(h, objA, key, Get(h[objB], key))
                              ELSE h
                         ELSE Put(h, objA, key, Get(h[objB], key))
                    ELSE h
         IN ExtendLoop(h1, objA, objB, overwriteProperties, Tail(keys))

\* extendObject(objA, objB, overwriteProperties), objA and objB being the
\* objects at those addresses: the heap after the call.
extendObject(h, objA, objB, overwriteProperties) ==
    ExtendLoop(h, objA, objB, overwriteProperties, KeysIn(h[objB]))

\* The loop of cloneObject over the properties of an object, copying each
\* value as it is instead of cloning it.
CloneProps_shallow(h, src, dst, keys) ==
    LET Copied(k) == IF \E i \in DOMAIN keys : keys[i] = k THEN h[src].props[k]
                     ELSE h[dst].props[k]
    IN [h EXCEPT ![dst].props = [k \in AllKeys |-> Copied(k)]]

RECURSIVE cloneObject(_, _), CloneElements(_, _, _, _, _), CloneProps(_, _, _, _)

\* The loop of cloneObject over the elements of the array at src, from index
\* i on, len being its length when the loop began; dst is the copy.
CloneElements(h, src, dst, i, len) ==
    IF i < len
    THEN LET r == cloneObject(h, Get(h[src], IndexKeys[i + 1]))
         IN CloneElements(Put(r.heap, dst, IndexKeys[i + 1], r.value), src, dst, i + 1, len)
    ELSE h

\* The loop of cloneObject over the own properties of the object at src that
\* are still to visit; dst is the copy.
CloneProps(h, src, dst, keys) ==
    IF keys = <<>> THEN h
    ELSE LET r == cloneObject(h, Get(h[src], Head(keys)))
         IN CloneProps(Put(r.heap, dst, Head(keys), r.value), src, dst, Tail(keys))

\* cloneObject(obj): the heap after the call and the value returned.
cloneObject(h, obj) ==
    IF obj.t # "ref"
    THEN [heap |-> h, value |-> obj]
    ELSE LET copy == Len(h) + 1
         IN CASE h[obj.v].kind = "date" ->
                   [heap |-> Append(h, NewDate(h[obj.v].time)), value |-> Ref(copy)]
              [] h[obj.v].kind = "array" ->
                   [heap  |-> CloneElements(Append(h, NewArray), obj.v, copy, 0,
                                            h[obj.v].length),
                    value |-> Ref(copy)]
              [] OTHER ->
                   [heap  |-> CloneProps(Append(h, NewObject), obj.v, copy,
                                         KeysIn(h[obj.v])),
                    value |-> Ref(copy)]

\* ------------------------------------------------------------------ util

\* Infinity (sign 1) and -Infinity (sign -1).
Infinity(sign) == [t |-> "infinity", v |-> sign]

\* The strings given to the util functions: a value of string type holds the
\* index of its string.
Strings == <<"", "1", " ", "0", "foo", "10">>

\* isNumber(n) with typeof n == 'number' as its only test.
isNumber_typeOnly(n) == n.t \in {"number", "NaN", "infinity"}

\* isNumber(n): (typeof n == 'number') && isFinite(n) && !isNaN(n); the two
\* global functions are applied to values of number type only.
isNumber(n) ==
    LET typeof == CASE n.t \in {"number", "NaN", "infinity"} -> "number"
                    [] n.t \in {"null", "ref"} -> "object"
                    [] OTHER -> n.t
        isFinite == n.t = "number"
        isNaN == n.t = "NaN"
    IN typeof = "number" /\ isFinite /\ ~isNaN

\* isRectInViewport with the margin left out of the four tests.
isRectInViewport_noMargin(rect, margin, w, h) ==
    [top    |-> IF rect.top < 0 THEN rect.top * (-1) ELSE 0,
     right  |-> IF rect.right > w THEN rect.right - w ELSE 0,
     bottom |-> IF rect.bottom > h THEN rect.bottom - h ELSE 0,
     left   |-> IF rect.left < 0 THEN rect.left * (-1) ELSE 0]

\* isRectInViewport(rect, margin), w and h being what viewportWidth() and
\* viewportHeight() return: the clientWidth and clientHeight of the document.
isRectInViewport(rect, margin, w, h) ==
    LET m == IF margin # Undef THEN margin.v ELSE 0
    IN [top    |-> IF rect.top - m < 0 THEN (rect.top - m) * (-1) ELSE 0,
        right  |-> IF rect.right + m > w THEN rect.right + m - w ELSE 0,
        bottom |-> IF rect.bottom + m > h THEN rect.bottom + m - h ELSE 0,
        left   |-> IF rect.left - m < 0 THEN (rect.left - m) * (-1) ELSE 0]

\* The animation polyfill as the dom module sets it up when it is loaded:
\* where raf and caf come from ("native", a vendor prefix, or "timer" for the
\* functions the module defines itself) and the name of the property taken.
\* native tells which of window.requestAnimationFrame and
\* window.cancelAnimationFrame there are, prefixed which of the prefixed
\* properties of each vendor; "" stands for undefined.
AnimationPolyfill(native, prefixed) ==
    LET vendors == <<"ms", "moz", "webkit", "o">>
        None0 == [from |-> "", name |-> ""]
        RECURSIVE Loop(_, _, _)
        Loop(x, r, c) ==
            IF x < Len(vendors) /\ r = None0
            THEN LET v == vendors[x + 1]
                 IN Loop(x + 1,
                         IF prefixed[v].request
                         THEN [from |-> v, name |-> "RequestAnimationFrame"]
                         ELSE None0,
                         IF prefixed[v].cancel
                         THEN [from |-> v, name |-> "CancelAnimationFrame"]
                         ELSE IF prefixed[v].cancelRequest
                         THEN [from |-> v, name |-> "CancelRequestAnimationFrame"]
                         ELSE None0)
            ELSE [raf |-> r, caf |-> c]
        found == Loop(0,
                      IF native.request
                      THEN [from |-> "native", name |-> "requestAnimationFrame"]
                      ELSE None0,
                      IF native.cancel
                      THEN [from |-> "native", name |-> "cancelAnimationFrame"]
                      ELSE None0)
    IN [raf |-> IF found.raf = None0 THEN [from |-> "timer", name |-> "setTimeout"]
                ELSE found.raf,
        caf |-> IF found.caf = None0 THEN [from |-> "timer", name |-> "clearTimeout"]
                ELSE found.caf]

\* ---------------------------------------------------------------- caller

\* The element types the caller creates nodes of.
NodeTypes == {"circle", "polygon"}

\* The geometry the caller draws: (cx, cy, r), (cx, cy, rx, ry), (x, y, w, h),
\* (x1, y1, x2, y2) and coordinate lists of even and of odd length.
CircleArgs == {<<50, 50, 10>>, <<1, 2, 3>>}

EllipseArgs == {<<50, 50, 10, 10>>, <<5, 6, 2, 1>>}

RectArgs == {<<0, 0, 10, 10>>}

LineArgs == {<<0, 0, 10, 10>>}

CoordLists == {<<>>, <<0, 0, 10>>, <<0, 0, 10, 0, 10, 10, 0, 10>>}

ShapeOps == {"circle", "ellipse", "rect", "line", "polyline", "polygon"}

\* A call as the caller wrote it: the module, the function, the child of the
\* svg surface it is given (0 for none), the element type (getContext) and
\* the geometry.
Call(backend, op, target, type, args) ==
    [backend |-> backend, op |-> op, target |-> target, type |-> type, args |-> args]

NoCall == Call("", "", 0, "", <<>>)

\* The shape function op of the svg module applied to element.  Each one
\* starts with dom.attr(element, {...}), and a text node has no setAttribute.
SvgOp(op, element, a, style) ==
    IF element.type = "#text" THEN SvgResult("TypeError", element) ELSE
    CASE op = "circle"   -> svg_circle(element, Num(a[1]), Num(a[2]), Num(a[3]), style)
      [] op = "ellipse"  -> svg_ellipse(element, Num(a[1]), Num(a[2]), Num(a[3]),
                                        Num(a[4]), style)
      [] op = "rect"     -> svg_rect(element, Num(a[1]), Num(a[2]), Num(a[3]),
                                     Num(a[4]), style)
      [] op = "line"     -> svg_line(element, Num(a[1]), Num(a[2]), Num(a[3]),
                                     Num(a[4]), style)
      [] op = "polyline" -> svg_polyline(element, a, style)
      [] op = "polygon"  -> svg_polygon(element, a, style)

\* The function op of the canvas module applied to the context.
CanvasOp(op, m, a, style) ==
    CASE op = "circle"   -> canvas_circle(m, Num(a[1]), Num(a[2]), Num(a[3]), style)
      [] op = "ellipse"  -> canvas_ellipse(m, a[1], a[2], a[3], a[4], style)
      [] op = "rect"     -> canvas_rect(m, Num(a[1]), Num(a[2]), Num(a[3]),
                                        Num(a[4]), style)
      [] op = "line"     -> canvas_line(m, Num(a[1]), Num(a[2]), Num(a[3]),
                                        Num(a[4]), style)
      [] op = "polyline" -> canvas_polyline(m, "context", a, style)
      [] op = "polygon"  -> canvas_polygon(m, a, style)
      [] op = "draw"     -> canvas_draw(m, style)

\* Made for draw functions that store the default line width in the
\* descriptor they are given.
Made_defaultStored(call, threw, cmds, drew) ==
    /\ last' = [call |-> call, threw |-> threw, cmds |-> cmds, drew |-> drew,
                nodesBefore |-> Len(svg)]
    /\ calls' = calls - 1
    /\ descriptor' = [descriptor EXCEPT !.lineWidth = IF @ = Undef THEN Num(1) ELSE @]
    /\ UNCHANGED attached
    /\ UNCHANGED utilVars

\* The record of the call just made.
Made(call, threw, cmds, drew) ==
    /\ last' = [call |-> call, threw |-> threw, cmds |-> cmds, drew |-> drew,
                nodesBefore |-> Len(svg)]
    /\ calls' = calls - 1
    /\ UNCHANGED <<descriptor, attached>>
    /\ UNCHANGED utilVars

\* A call of the svg module that clears: the calls before it are forgotten.
SvgCleared(call) ==
    /\ history' = [history EXCEPT !.svg = <<>>]
    /\ Made(call, "", <<>>, FALSE)
    /\ UNCHANGED <<ctx, pixels>>

\* A shape function of the svg module called on the i-th child of the surface.
SvgShape(op, i, a) ==
    LET call == Call("svg", op, i, "", a)
        r    == SvgOp(op, svg[i], a, descriptor)
    IN /\ calls > 0
       /\ svg' = [svg EXCEPT ![i] = r.element]
       /\ history' = [history EXCEPT !.svg = Append(@, call)]
       /\ Made(call, r.threw, <<>>, FALSE)
       /\ UNCHANGED <<ctx, pixels>>

\* A function of the canvas module called on the context.
CanvasShape(op, a) ==
    LET call == Call("canvas", op, 0, "", a)
        r    == CanvasOp(op, Running(ctx, pixels), a, descriptor)
    IN /\ calls > 0
       /\ ctx' = r.ctx
       /\ pixels' = r.pixels
       /\ history' = [history EXCEPT !.canvas = Append(@, call)]
       /\ Made(call, r.threw, r.cmds, r.drew)
       /\ UNCHANGED svg

\* ------------------------------------------------------------- svg calls

SvgGetContext ==
    \E type \in NodeTypes :
        LET call == Call("svg", "getContext", 0, type, <<>>)
        IN /\ calls > 0
           /\ svg' = svg_getContext(svg, type)
           /\ history' = [history EXCEPT !.svg = Append(@, call)]
           /\ Made(call, "", <<>>, FALSE)
           /\ UNCHANGED <<ctx, pixels>>

SvgClear ==
    /\ calls > 0
    /\ svg' = svg_clear(svg)
    /\ SvgCleared(Call("svg", "clear", 0, "", <<>>))

SvgEmpty ==
    /\ calls > 0
    /\ svg' = svg_empty(svg)
    /\ SvgCleared(Call("svg", "empty", 0, "", <<>>))

SvgCircle == \E i \in DOMAIN svg, a \in CircleArgs : SvgShape("circle", i, a)

SvgEllipse == \E i \in DOMAIN svg, a \in EllipseArgs : SvgShape("ellipse", i, a)

SvgRect == \E i \in DOMAIN svg, a \in RectArgs : SvgShape("rect", i, a)

SvgLine == \E i \in DOMAIN svg, a \in LineArgs : SvgShape("line", i, a)

SvgPolyline == \E i \in DOMAIN svg, a \in CoordLists : SvgShape("polyline", i, a)

SvgPolygon == \E i \in DOMAIN svg, a \in CoordLists : SvgShape("polygon", i, a)

\* ------------------------------------------------------------- dom calls

\* The record of a call of the dom module made by the caller itself.
DomMade(call, threw) ==
    /\ last' = [call |-> call, threw |-> threw, cmds |-> <<>>, drew |-> FALSE,
                nodesBefore |-> Len(svg)]
    /\ calls' = calls - 1
    /\ history' = [history EXCEPT !.svg = Append(@, call)]
    /\ UNCHANGED <<descriptor, ctx, pixels>>
    /\ UNCHANGED utilVars

\* dom.appendChild(surface, child) for the i-th child of the surface: the
\* document takes the node out of its place and makes it the last child.
DomAppendChild ==
    \E i \in DOMAIN svg :
        /\ calls > 0
        /\ svg' = dom_appendChild(SubSeq(svg, 1, i - 1) \o SubSeq(svg, i + 1, Len(svg)),
                                  svg[i])
        /\ DomMade(Call("dom", "appendChild", i, "", <<>>), "")
        /\ UNCHANGED attached

\* dom.appendText(surface, text): a new text node becomes the last child.
DomAppendText ==
    LET textNode == [createSVGElement("#text") EXCEPT !.data = "hi"]
    IN /\ calls > 0
       /\ svg' = dom_appendChild(svg, textNode)
       /\ DomMade(Call("dom", "appendText", 0, "hi", <<>>), "")
       /\ UNCHANGED attached

\* dom.html(surface, html): the children are replaced by the nodes the
\* markup holds, each with the attributes written in its tag.  The markup
\* is given as the tags it holds: '' and '<circle r="3"></circle>'.
DomHtml ==
    \E markup \in {<<>>, <<[type |-> "circle", attributes |-> ("r" :> Num(3))]>>} :
        /\ calls > 0
        /\ svg' = [k \in DOMAIN markup |->
                     dom_attr(createSVGElement(markup[k].type), markup[k].attributes)]
        /\ DomMade(Call("dom", "html", 0, "", markup), "")
        /\ UNCHANGED attached

\* dom.remove(element) for the i-th child of the surface, or for the surface
\* itself (0): the element is no longer a child of its parent.  The surface
\* once removed has no parentElement, and removing it again throws.
DomRemove ==
    \E i \in 0 .. Len(svg) :
        /\ calls > 0
        /\ svg' = IF i = 0 THEN svg
                  ELSE SubSeq(svg, 1, i - 1) \o SubSeq(svg, i + 1, Len(svg))
        /\ attached' = (attached /\ i # 0)
        /\ DomMade(Call("dom", "remove", i, "", <<>>),
                   IF i = 0 /\ ~attached THEN "TypeError" ELSE "")

\* dom.attr(child, {r:7, fill:'none'}) for the i-th child of the surface, and
\* dom.attr(canvas, {width:300}): setting the width of a canvas erases its
\* buffer and puts its context back to the state of a new one.  A text node
\* has no setAttribute.
DomAttr ==
    \/ \E i \in DOMAIN svg :
          /\ calls > 0
          /\ svg' = [svg EXCEPT ![i] = IF @.type = "#text" THEN @
                                       ELSE dom_attr(@, ("r" :> Num(7)) @@ ("fill" :> None))]
          /\ DomMade(Call("dom", "attr", i, "", <<>>),
                     IF svg[i].type = "#text" THEN "TypeError" ELSE "")
          /\ UNCHANGED attached
    \/ /\ calls > 0
       /\ ctx' = NewContext
       /\ pixels' = <<>>
       /\ history' = [history EXCEPT !.canvas = <<>>]
       /\ Made(Call("dom", "attr", 0, "canvas", <<>>), "", <<>>, FALSE)
       /\ UNCHANGED svg

\* dom.removeAttr(child, ['fill', 'r']) for the i-th child of the surface:
\* the element no longer has the attributes named.
DomRemoveAttr ==
    \E i \in DOMAIN svg :
        LET none == createSVGElement(svg[i].type).attrs
        IN /\ calls > 0
           /\ svg' = [svg EXCEPT ![i] =
                        IF @.type = "#text" THEN @
                        ELSE dom_attr(@, [p \in {"fill", "r"} |-> none[p]])]
           /\ DomMade(Call("dom", "removeAttr", i, "", <<>>),
                      IF svg[i].type = "#text" THEN "TypeError" ELSE "")
           /\ UNCHANGED attached

\* ---------------------------------------------------------- canvas calls

\* A call of the canvas module that clears.
CanvasCleared(op, r) ==
    /\ calls > 0
    /\ ctx' = r.ctx
    /\ pixels' = r.pixels
    /\ history' = [history EXCEPT !.canvas = <<>>]
    /\ Made(Call("canvas", op, 0, "", <<>>), r.threw, r.cmds, r.drew)
    /\ UNCHANGED svg

CanvasClear == CanvasCleared("clear", canvas_clear(Running(ctx, pixels)))

CanvasEmpty == CanvasCleared("empty", canvas_empty(Running(ctx, pixels)))

CanvasCircle == \E a \in CircleArgs : CanvasShape("circle", a)

CanvasEllipse == \E a \in EllipseArgs : CanvasShape("ellipse", a)

CanvasRect == \E a \in RectArgs : CanvasShape("rect", a)

CanvasLine == \E a \in LineArgs : CanvasShape("line", a)

CanvasPolyline == \E a \in CoordLists : CanvasShape("polyline", a)

CanvasPolygon == \E a \in CoordLists : CanvasShape("polygon", a)

CanvasDraw == CanvasShape("draw", <<>>)

\* --------------------------------------------------------- specifications

\* A new svg surface in its container and a new canvas with its context.
Fresh ==
    /\ attached = TRUE
    /\ ctx = NewContext
    /\ pixels = <<>>
    /\ last = [call |-> NoCall, threw |-> "", cmds |-> <<>>, drew |-> FALSE,
               nodesBefore |-> 0]

\* The selection not yet queried, and not queried in this run.
Unqueried ==
    /\ host = FullHost
    /\ selection = "untested"
    /\ probes = <<>>
    /\ answers = <<>>
    /\ queries = 0

\* The dom module just loaded on a host with no frame scheduler: no timeout
\* pending, lastTime 0.
Idle ==
    /\ clock = Epoch
    /\ timers = {}
    /\ nextId = 1
    /\ lastTime = 0
    /\ fired = <<>>
    /\ cancels = {}
    /\ timeout = Undef
    /\ invoked = <<>>
    /\ applied = <<>>

\* No function debounced in this run, and no util function called.
NoDebounce ==
    /\ wait = 0
    /\ immediate = FALSE
    /\ heap = <<>>
    /\ heap0 = <<>>
    /\ given = <<>>
    /\ result = Undef
    /\ pc = "done"

\* Scenes: an empty surface, and a caller making MaxCalls calls with one of
\* the scene descriptors.
Init ==
    /\ Fresh
    /\ Unqueried
    /\ Idle
    /\ NoDebounce
    /\ svg = <<>>
    /\ history = [svg |-> <<>>, canvas |-> <<>>]
    /\ descriptor \in SceneStyles
    /\ calls = MaxCalls

\* Styles: a surface on which getContext has made one node, and a caller
\* making MaxStyleCalls calls of the svg and canvas modules with any
\* descriptor, or with none.
InitStyle ==
    /\ Fresh
    /\ Unqueried
    /\ Idle
    /\ NoDebounce
    /\ svg = svg_getContext(<<>>, "circle")
    /\ history = [svg |-> <<Call("svg", "getContext", 0, "circle", <<>>)>>,
                  canvas |-> <<>>]
    /\ descriptor \in Styles \cup {NoStyle}
    /\ calls = MaxStyleCalls

\* A call of the svg module or of the canvas module.
NextDraw ==
    \/ SvgGetContext
    \/ SvgClear
    \/ SvgEmpty
    \/ SvgCircle
    \/ SvgEllipse
    \/ SvgRect
    \/ SvgLine
    \/ SvgPolyline
    \/ SvgPolygon
    \/ CanvasClear
    \/ CanvasEmpty
    \/ CanvasCircle
    \/ CanvasEllipse
    \/ CanvasRect
    \/ CanvasLine
    \/ CanvasPolyline
    \/ CanvasPolygon
    \/ CanvasDraw

\* A call of the svg module or of the canvas module, or a call the caller
\* makes of the dom module on the surface, on its children or on the canvas.
Next ==
    \/ NextDraw
    \/ DomAppendChild
    \/ DomAppendText
    \/ DomHtml
    \/ DomRemove
    \/ DomAttr
    \/ DomRemoveAttr

Spec == Init /\ [][Next]_vars

SpecStyle == InitStyle /\ [][NextDraw]_vars

\* -------------------------------------------------- selection specification

\* A query of the backend selection: the first one probes and keeps the
\* result, a later one returns what was kept.  A query whose probe throws
\* answers with the error and keeps nothing: the next query probes again.
QueryBackend ==
    /\ queries > 0
    /\ queries' = queries - 1
    /\ IF selection = "untested"
       THEN /\ selection' = SelectBackend(host).selection
            /\ probes' = probes \o SelectBackend(host).probed
            /\ answers' = Append(answers, IF SelectBackend(host).threw # ""
                                          THEN SelectBackend(host).threw
                                          ELSE SelectBackend(host).selection)
       ELSE /\ UNCHANGED <<selection, probes>>
            /\ answers' = Append(answers, selection)
    /\ UNCHANGED host
    /\ UNCHANGED <<drawVars, timerVars, rafVars, debounceVars, objVars>>

\* The environment changes: the document answers the probes otherwise.
HostChanges ==
    /\ queries > 0
    /\ queries' = queries - 1
    /\ \E h \in Hosts \ {host} : host' = h
    /\ UNCHANGED <<selection, probes, answers>>
    /\ UNCHANGED <<drawVars, timerVars, rafVars, debounceVars, objVars>>

\* Selection: any host, the selection untested, a new svg surface, and a
\* caller that queries the selection, draws with the svg module and calls
\* the dom module.
InitSelect ==
    /\ Fresh
    /\ svg = <<>>
    /\ history = [svg |-> <<>>, canvas |-> <<>>]
    /\ descriptor = RedOnBlack
    /\ calls = MaxSelectCalls
    /\ host \in Hosts
    /\ selection = "untested"
    /\ probes = <<>>
    /\ answers = <<>>
    /\ queries = MaxQueries
    /\ Idle
    /\ NoDebounce

NextSelect ==
    \/ QueryBackend
    \/ HostChanges
    \/ SvgGetContext
    \/ SvgCircle
    \/ SvgEllipse
    \/ SvgRect
    \/ SvgLine
    \/ SvgPolyline
    \/ SvgPolygon
    \/ DomAppendChild
    \/ DomAppendText
    \/ DomHtml
    \/ DomRemove
    \/ DomAttr
    \/ DomRemoveAttr

SpecSelect == InitSelect /\ [][NextSelect]_vars

\* -------------------------------------------------- animation specification

\* The callbacks the caller passes to requestAnimation.
Callbacks == {"f", "g"}

\* The caller requests a frame for one of its callbacks.
RequestAnimation ==
    \E callback \in Callbacks :
        LET r == requestAnimation(callback, clock, lastTime, timers, nextId)
        IN /\ nextId <= MaxRequests
           /\ timers' = r.timers
           /\ lastTime' = r.lastTime
           /\ nextId' = nextId + 1
           /\ UNCHANGED <<clock, fired, cancels>>
           /\ UNCHANGED <<drawVars, selectVars, debounceVars, objVars>>

\* The caller cancels a request by the id requestAnimation returned for it.
CancelAnimation ==
    \E id \in 1 .. (nextId - 1) :
        /\ timers' = cancelAnimation(timers, id)
        /\ cancels' = cancels \cup {x.id : x \in {y \in timers : y.id = id}}
        /\ UNCHANGED <<clock, nextId, lastTime, fired>>
        /\ UNCHANGED <<drawVars, selectVars, debounceVars, objVars>>

\* The host runs a timeout that is due: function () {callback(currTime +
\* timeToCall);}.
TimerFires ==
    \E x \in timers :
        /\ x.due <= clock
        /\ timers' = timers \ {x}
        /\ fired' = Append(fired, [id |-> x.id, callback |-> x.fn.callback,
                                   arg |-> x.fn.arg, at |-> clock])
        /\ UNCHANGED <<clock, nextId, lastTime, cancels>>
        /\ UNCHANGED <<drawVars, selectVars, debounceVars, objVars>>

\* A millisecond passes.  The host runs a timeout at its due time or later:
\* the clock goes on while a timeout that is due waits to be run.
Tick ==
    /\ clock < Epoch + MaxTicks
    /\ clock' = clock + 1
    /\ UNCHANGED <<timers, nextId>>
    /\ UNCHANGED <<timeout, invoked, applied>>
    /\ UNCHANGED <<drawVars, selectVars, rafVars, objVars>>
    /\ UNCHANGED <<wait, immediate>>

\* Animation: the dom module loaded on a host with no frame scheduler.
InitRaf ==
    /\ Fresh
    /\ svg = <<>>
    /\ history = [svg |-> <<>>, canvas |-> <<>>]
    /\ descriptor = EmptyStyle
    /\ calls = 0
    /\ Unqueried
    /\ Idle
    /\ NoDebounce

NextRaf ==
    \/ RequestAnimation
    \/ CancelAnimation
    \/ TimerFires
    \/ Tick

SpecRaf == InitRaf /\ [][NextRaf]_vars

\* --------------------------------------------------- debounce specification

\* The wait arguments of debounce, in ms.
Waits == {0, 2, 3}

\* The this-values the debounced function is invoked with, in turn; the
\* arguments of the n-th invocation are (n).
Receivers == <<"a", "b">>

\* The debounced function is invoked, at any time: also while its timeout is
\* due and the host has not run it yet.
Invoke ==
    \E me \in {Receivers[(Len(invoked) % 2) + 1]} :
        LET args == <<Len(invoked) + 1>>
            r    == debounced(me, args, wait, immediate, timeout, timers, nextId, clock)
        IN /\ Len(invoked) < MaxInvocations
           /\ timers' = r.timers
           /\ timeout' = r.timeout
           /\ nextId' = nextId + 1
           /\ invoked' = Append(invoked, [at |-> clock, me |-> me, args |-> args,
                                          pending |-> timers # {}])
           /\ applied' = applied \o [k \in DOMAIN r.applied |->
                                       [at |-> clock, me |-> r.applied[k].me,
                                        args |-> r.applied[k].args]]
           /\ UNCHANGED <<clock, wait, immediate>>
           /\ UNCHANGED <<drawVars, selectVars, rafVars, objVars>>

\* The host runs the timeout of the debounced function: later().
LaterRuns ==
    \E x \in timers :
        LET r == later(x.fn, immediate, timeout)
        IN /\ x.due <= clock
           /\ timers' = timers \ {x}
           /\ timeout' = r.timeout
           /\ applied' = applied \o [k \in DOMAIN r.applied |->
                                       [at |-> clock, me |-> r.applied[k].me,
                                        args |-> r.applied[k].args]]
           /\ UNCHANGED <<clock, nextId, invoked, wait, immediate>>
           /\ UNCHANGED <<drawVars, selectVars, rafVars, objVars>>

\* Debounce: debounce(func, wait, immediate) just called, the function it
\* returned not yet invoked, MaxDebounceTicks ms before the clock stops.
InitDebounce ==
    /\ Fresh
    /\ svg = <<>>
    /\ history = [svg |-> <<>>, canvas |-> <<>>]
    /\ descriptor = EmptyStyle
    /\ calls = 0
    /\ Unqueried
    /\ clock = Epoch + MaxTicks - MaxDebounceTicks
    /\ timers = {}
    /\ nextId = 1
    /\ lastTime = 0
    /\ fired = <<>>
    /\ cancels = {}
    /\ timeout = Undef
    /\ invoked = <<>>
    /\ applied = <<>>
    /\ wait \in Waits
    /\ immediate \in BOOLEAN
    /\ heap = <<>>
    /\ heap0 = <<>>
    /\ given = <<>>
    /\ result = Undef
    /\ pc = "done"

NextDebounce ==
    \/ Invoke
    \/ LaterRuns
    \/ Tick

SpecDebounce == InitDebounce /\ [][NextDebounce]_vars

\* ----------------------------------------------- extendObject specification

\* The values of the properties of objA and objB.
PropValues == {Undef, Num(1), Num(2)}

\* The object literals with properties among Keys.
Literals ==
    {[NewObject EXCEPT !.props = [k \in AllKeys |-> IF k \in Keys THEN f[k] ELSE Absent]] :
        f \in [Keys -> PropValues \cup {Absent}]}

\* The caller calls extendObject.
ExtendObject ==
    /\ pc = "ready"
    /\ Len(given) = 3
    /\ heap' = extendObject(heap, given[1].v, given[2].v, given[3])
    /\ result' = Undef
    /\ pc' = "done"
    /\ UNCHANGED <<heap0, given>>
    /\ UNCHANGED <<drawVars, selectVars, timerVars, rafVars, debounceVars>>

\* extendObject: two object literals, objA and objB either of them, and
\* overwriteProperties omitted, true or false.
InitExtend ==
    /\ Fresh
    /\ svg = <<>>
    /\ history = [svg |-> <<>>, canvas |-> <<>>]
    /\ descriptor = EmptyStyle
    /\ calls = 0
    /\ Unqueried
    /\ Idle
    /\ wait = 0
    /\ immediate = FALSE
    /\ heap \in [1 .. 2 -> Literals]
    /\ heap0 = heap
    /\ given \in {<<Ref(a), Ref(b), o>> :
                    a \in 1 .. 2, b \in 1 .. 2, o \in {Undef, Bool(TRUE), Bool(FALSE)}}
    /\ result = Undef
    /\ pc = "ready"

NextExtend ==
    \/ ExtendObject

SpecExtend == InitExtend /\ [][NextExtend]_vars

\* ------------------------------------------------ cloneObject specification

\* The object literal {a: a, b: b} and the array literal of the elements
\* given: Absent for a property or an element that is not written.
Obj(a, b) ==
    [NewObject EXCEPT !.props = [k \in AllKeys |->
        IF k = "a" THEN a ELSE IF k = "b" THEN b ELSE Absent]]

Arr(e0, e1) ==
    [NewArray EXCEPT !.length = IF e0 = Absent THEN 0 ELSE IF e1 = Absent THEN 1 ELSE 2,
                     !.props = [k \in AllKeys |->
        IF k = "0" THEN e0 ELSE IF k = "1" THEN e1 ELSE Absent]]

\* The values cloneObject is given, each with the heap it lives in:
\* primitives; {a:1, b:undefined}; [1, 2]; []; {a:{b:2}, b:[1, {a:1}]};
\* {a:x, b:x} with x = [1]; [[2], {}]; {a: new Date(5)}.
CloneInputs ==
    {[heap |-> <<>>, obj |-> v] : v \in {Num(1), Undef, Null, Bool(TRUE)}}
    \cup
    {[heap |-> <<Obj(Num(1), Undef)>>, obj |-> Ref(1)],
     [heap |-> <<Arr(Num(1), Num(2))>>, obj |-> Ref(1)],
     [heap |-> <<Arr(Absent, Absent)>>, obj |-> Ref(1)],
     [heap |-> <<Obj(Ref(2), Ref(3)), Obj(Absent, Num(2)), Arr(Num(1), Ref(4)),
                 Obj(Num(1), Absent)>>, obj |-> Ref(1)],
     [heap |-> <<Obj(Ref(2), Ref(2)), Arr(Num(1), Absent)>>, obj |-> Ref(1)],
     [heap |-> <<Arr(Ref(2), Ref(3)), Arr(Num(2), Absent), Obj(Absent, Absent)>>,
      obj |-> Ref(1)],
     [heap |-> <<Obj(Ref(2), Absent), NewDate(5)>>, obj |-> Ref(1)]}

\* The caller calls cloneObject.
CloneObject ==
    /\ pc = "ready"
    /\ Len(given) = 1
    /\ heap' = cloneObject(heap, given[1]).heap
    /\ result' = cloneObject(heap, given[1]).value
    /\ pc' = "done"
    /\ UNCHANGED <<heap0, given>>
    /\ UNCHANGED <<drawVars, selectVars, timerVars, rafVars, debounceVars>>

\* After the call the caller sets a property or an element of one of the
\* objects the clone is made of.
MutateCopy ==
    \E r \in DOMAIN heap \ DOMAIN heap0, key \in AllKeys, value \in {Num(9), Undef} :
        /\ pc = "done"
        /\ Len(given) = 1
        /\ heap' = Put(heap, r, key, value)
        /\ pc' = "copy changed"
        /\ UNCHANGED <<heap0, given, result>>
        /\ UNCHANGED <<drawVars, selectVars, timerVars, rafVars, debounceVars>>

\* After the call the caller sets a property or an element of one of the
\* objects the original is made of.
MutateObj ==
    \E r \in DOMAIN heap0, key \in AllKeys, value \in {Num(9), Undef} :
        /\ pc = "done"
        /\ Len(given) = 1
        /\ heap' = Put(heap, r, key, value)
        /\ pc' = "obj changed"
        /\ UNCHANGED <<heap0, given, result>>
        /\ UNCHANGED <<drawVars, selectVars, timerVars, rafVars, debounceVars>>

\* cloneObject: a value in its heap, about to be cloned.
InitClone ==
    /\ Fresh
    /\ svg = <<>>
    /\ history = [svg |-> <<>>, canvas |-> <<>>]
    /\ descriptor = EmptyStyle
    /\ calls = 0
    /\ Unqueried
    /\ Idle
    /\ wait = 0
    /\ immediate = FALSE
    /\ \E input \in CloneInputs :
         /\ heap = input.heap
         /\ heap0 = input.heap
         /\ given = <<input.obj>>
    /\ result = Undef
    /\ pc = "ready"

NextClone ==
    \/ CloneObject
    \/ MutateCopy
    \/ MutateObj

SpecClone == InitClone /\ [][NextClone]_vars

\* ------------------------------------------------------- util specification

\* The values isNumber is given, each with the heap it lives in: the numbers,
\* NaN, Infinity, -Infinity, null, undefined, true, false, the strings, {},
\* [] and [1].
NumberInputs ==
    {[heap |-> <<>>, given |-> <<v>>] :
        v \in {Num(n) : n \in -MaxNumber..MaxNumber}
              \cup {NaN, Infinity(1), Infinity(-1), Null, Undef, Bool(TRUE), Bool(FALSE)}
              \cup {[t |-> "string", v |-> i] : i \in DOMAIN Strings}}
    \cup
    {[heap |-> <<o>>, given |-> <<Ref(1)>>] :
        o \in {Obj(Absent, Absent), Arr(Absent, Absent), Arr(Num(1), Absent)}}

\* The caller calls isNumber.
IsNumber ==
    /\ pc = "ready"
    /\ Len(given) = 1
    /\ result' = Bool(isNumber(given[1]))
    /\ pc' = "done"
    /\ UNCHANGED <<heap, heap0, given>>
    /\ UNCHANGED <<drawVars, selectVars, timerVars, rafVars, debounceVars>>

\* What isRectInViewport is called with, and the viewport it is called in:
\* a rect as getBoundingClientRect gives it (top <= bottom, left <= right)
\* inside, across or beyond the viewport, the margin left out, 0 or
\* positive, and the clientWidth and clientHeight of the document.
RectInputs ==
    LET Xs == {-3, 0, 2, 10, 12}
        Ys == {-3, 0, 2, 8, 11}
        Rects == {r \in [top : Ys, right : Xs, bottom : Ys, left : Xs] :
                    r.top <= r.bottom /\ r.left <= r.right}
    IN {<<r, margin, [w |-> 10, h |-> 8]>> :
          r \in Rects, margin \in {Undef, Num(0), Num(1), Num(3)}}

\* The caller calls isRectInViewport.
IsRectInViewport ==
    /\ pc = "ready"
    /\ Len(given) = 3
    /\ result' = isRectInViewport(given[1], given[2], given[3].w, given[3].h)
    /\ pc' = "done"
    /\ UNCHANGED <<heap, heap0, given>>
    /\ UNCHANGED <<drawVars, selectVars, timerVars, rafVars, debounceVars>>

\* The windows the dom module may be loaded in: any combination of the
\* native request and cancel functions and of the request, cancel and
\* cancel-request functions of the four vendors.
Windows ==
    {<<native, prefixed>> :
        native \in [request : BOOLEAN, cancel : BOOLEAN],
        prefixed \in [{"ms", "moz", "webkit", "o"} ->
                        [request : BOOLEAN, cancel : BOOLEAN, cancelRequest : BOOLEAN]]}

\* The dom module is loaded: raf and caf are resolved.
LoadDom ==
    /\ pc = "ready"
    /\ Len(given) = 2
    /\ result' = AnimationPolyfill(given[1], given[2])
    /\ pc' = "done"
    /\ UNCHANGED <<heap, heap0, given>>
    /\ UNCHANGED <<drawVars, selectVars, timerVars, rafVars, debounceVars>>

\* The util functions and the module set-up without state of their own: the
\* arguments about to be passed, or the window the module is about to load in.
InitUtil ==
    /\ Fresh
    /\ svg = <<>>
    /\ history = [svg |-> <<>>, canvas |-> <<>>]
    /\ descriptor = EmptyStyle
    /\ calls = 0
    /\ Unqueried
    /\ Idle
    /\ wait = 0
    /\ immediate = FALSE
    /\ \/ \E input \in NumberInputs :
              /\ heap = input.heap
              /\ heap0 = input.heap
              /\ given = input.given
       \/ /\ heap = <<>>
          /\ heap0 = <<>>
          /\ given \in RectInputs \cup Windows
    /\ result = Undef
    /\ pc = "ready"

NextUtil ==
    \/ IsNumber
    \/ IsRectInViewport
    \/ LoadDom

SpecUtil == InitUtil /\ [][NextUtil]_vars

\* ================================================================ claims

LastIs(backend, ops) == last.call.backend = backend /\ last.call.op \in ops

\* The last call was a shape function of the svg module given an element (a
\* node getContext or markup made), not a text node.
ShapeOnElement(ops) ==
    LastIs("svg", ops) /\ svg[last.call.target].type # "#text"

\* The calls made on the svg surface since it was last cleared are all calls
\* of the svg module: the caller has not itself moved, removed or replaced
\* nodes with the dom module.
SvgOnly == \A k \in DOMAIN history.svg : history.svg[k].backend = "svg"

\* The call just made, seen from the step that made it.
JustMade(backend, ops) ==
    calls' < calls /\ last'.call.backend = backend /\ last'.call.op \in ops

\* Whether the last call used method name of the context, and where.
Issued(name) == \E k \in DOMAIN last.cmds : last.cmds[k].cmd = name

Places(name) == {k \in DOMAIN last.cmds : last.cmds[k].cmd = name}

Assigned(prop) ==
    {k \in DOMAIN last.cmds : last.cmds[k].cmd = "set" /\ last.cmds[k].prop = prop}

\* 'rgba(r,g,b,opacity)' for the rgb of colour c.
WithAlpha(c, opacity) == [fmt |-> "rgba", rgb |-> c.rgb, a |-> opacity.v]

\* ------------------------------------------------------------------- C1

\* C1: every shape operation of the svg module adds exactly one new node to
\* the surface.
C1_ShapeAddsOneNode ==
    LastIs("svg", ShapeOps) => Len(svg) = last.nodesBefore + 1

\* ------------------------------------------------------------------- C2

\* C2: a shape operation called without the style argument completes without
\* an error and acts as with the empty descriptor: no fill, no stroke, line
\* width 1, join 'round', cap 'butt'.
C2_StyleOptional ==
    ((ShapeOnElement(ShapeOps) \/ LastIs("canvas", ShapeOps)) /\ descriptor = NoStyle) =>
        /\ last.threw = ""
        /\ last.call.backend = "svg" =>
             LET attrs == svg[last.call.target].attrs
             IN /\ attrs["fill"] = None
                /\ attrs["stroke"] = None
                /\ attrs["stroke-width"] = Num(1)
                /\ attrs["stroke-linejoin"] = "round"
                /\ attrs["stroke-linecap"] = "butt"
        /\ last.call.backend = "canvas" => ~Issued("fill") /\ ~Issued("stroke")

\* ------------------------------------------------------------------- C3

\* The path commands that trace the coordinate list a: moveTo for the first
\* pair, lineTo for each later pair.
TraceOf(a) ==
    [k \in 1 .. (Len(a) \div 2) |->
        Cmd(IF k = 1 THEN "moveTo" ELSE "lineTo", "", <<Num(a[2 * k - 1]), Num(a[2 * k])>>)]

\* C3: polygon of the canvas module, given a descriptor and a coordinate list
\* of even length, completes without error, begins a path, traces the list,
\* closes the path and applies the style; with only fillColor set it fills
\* and does not stroke.
C3_PolygonTracesAndCloses ==
    (LastIs("canvas", {"polygon"}) /\ descriptor.isObject
        /\ Len(last.call.args) % 2 = 0) =>
        LET n == Len(last.call.args) \div 2
        IN /\ last.threw = ""
           /\ Len(last.cmds) >= n + 2
           /\ last.cmds[1].cmd = "beginPath"
           /\ SubSeq(last.cmds, 2, n + 1) = TraceOf(last.call.args)
           /\ last.cmds[n + 2].cmd = "closePath"
           /\ (descriptor.fillColor # NoColor /\ descriptor.lineColor = NoColor) =>
                Issued("fill") /\ ~Issued("stroke")

\* ------------------------------------------------------------------- C4

\* C4: with fillColor and fillOpacity set, the fill written (the fill
\* attribute, ctx.fillStyle) is the rgba colour of fillColor with alpha
\* fillOpacity, whatever alpha fillColor embeds; lineColor with lineOpacity
\* likewise (stroke attribute, ctx.strokeStyle); and the two modules resolve
\* the same colours for the same descriptor, wherever both write one.
C4_OpacityOverridesAlpha ==
    /\ (ShapeOnElement(ShapeOps) /\ last.threw = "") =>
         LET attrs == svg[last.call.target].attrs
         IN /\ (descriptor.fillColor # NoColor /\ descriptor.fillOpacity # Undef) =>
                 attrs["fill"] = WithAlpha(descriptor.fillColor, descriptor.fillOpacity)
            /\ (descriptor.lineColor # NoColor /\ descriptor.lineOpacity # Undef) =>
                 attrs["stroke"] = WithAlpha(descriptor.lineColor, descriptor.lineOpacity)
    /\ (LastIs("canvas", ShapeOps \cup {"draw"}) /\ Assigned("fillStyle") # {}
          /\ descriptor.fillOpacity # Undef) =>
         ctx.fillStyle = WithAlpha(descriptor.fillColor, descriptor.fillOpacity)
    /\ (LastIs("canvas", ShapeOps \cup {"draw"}) /\ Assigned("strokeStyle") # {}
          /\ descriptor.lineOpacity # Undef) =>
         ctx.strokeStyle = WithAlpha(descriptor.lineColor, descriptor.lineOpacity)
    /\ descriptor.isObject =>
         LET attrs  == svg_draw(createSVGElement("circle"), descriptor).element.attrs
             canvas == canvas_draw(Running(NewContext, <<>>), descriptor)
         IN /\ descriptor.fillColor # NoColor => attrs["fill"] = canvas.ctx.fillStyle
            /\ (descriptor.lineColor # NoColor /\ descriptor.lineWidth # Num(0)) =>
                 attrs["stroke"] = canvas.ctx.strokeStyle

\* A fill colour that embeds alpha 0.5, drawn with fillOpacity 0.3 by the svg
\* module, and a line colour likewise.
C4_Witness ==
    /\ LastIs("svg", ShapeOps)
    /\ last.threw = ""
    /\ descriptor.fillColor = Rgba(255, 0, 0, 50)
    /\ descriptor.fillOpacity = Num(30)
    /\ descriptor.lineColor = Rgba(0, 0, 0, 50)
    /\ descriptor.lineOpacity = Num(30)
    /\ svg[last.call.target].attrs["fill"] = Rgba(255, 0, 0, 30)

\* ------------------------------------------------------------------- C5

\* C5: polyline and polygon given a coordinate list of odd length (and a
\* descriptor) fail with InvalidArgument and leave the surface, the context
\* and the buffer as they were.
C5_OddListRejected ==
    [][(/\ \/ /\ JustMade("svg", {"polyline", "polygon"})
               /\ svg[last'.call.target].type # "#text"
            \/ JustMade("canvas", {"polyline", "polygon"})
        /\ descriptor.isObject
        /\ Len(last'.call.args) % 2 = 1) =>
            /\ last'.threw = "InvalidArgument"
            /\ last'.cmds = <<>>
            /\ svg' = svg
            /\ ctx' = ctx
            /\ pixels' = pixels
      ]_vars

\* ------------------------------------------------------------------- C6

\* A lineWidth that is not a finite number >= 0.
BadLineWidth(w) == w.t \notin {"number", "undefined"} \/ (w.t = "number" /\ w.v < 0)

\* C6: a draw call fails with InvalidArgument when the descriptor's lineWidth
\* is not a finite number >= 0, and raises no error when it is 0 or positive.
C6_LineWidthValidated ==
    ((ShapeOnElement(ShapeOps) \/ LastIs("canvas", ShapeOps)) /\ descriptor.isObject) =>
        /\ BadLineWidth(descriptor.lineWidth) => last.threw = "InvalidArgument"
        /\ (descriptor.lineWidth.t = "number" /\ descriptor.lineWidth.v >= 0) =>
             last.threw = ""

\* ------------------------------------------------------------------- C7

\* C7: after clear of the svg module the surface has no child node, and is
\* still attached to its container if it was before.
C7_ClearRemovesChildren ==
    [][JustMade("svg", {"clear"}) => (svg' = <<>> /\ attached' = attached)]_vars

\* ------------------------------------------------------------------- C8

\* The children of an empty surface after the svg calls h.
RECURSIVE SvgReplay(_, _, _)
SvgReplay(children, h, style) ==
    IF h = <<>> THEN children
    ELSE LET c == Head(h)
         IN SvgReplay(
              IF c.op = "getContext" THEN svg_getContext(children, c.type)
              ELSE IF c.target \in DOMAIN children
                   THEN [children EXCEPT ![c.target] =
                            SvgOp(c.op, children[c.target], c.args, style).element]
                   ELSE children,
              Tail(h), style)

\* The buffer of an erased canvas after the canvas calls h.
RECURSIVE CanvasReplay(_, _, _)
CanvasReplay(m, h, style) ==
    IF h = <<>> THEN m.pixels
    ELSE LET r == CanvasOp(Head(h).op, Running(m.ctx, m.pixels), Head(h).args, style)
         IN CanvasReplay(r, Tail(h), style)

\* C8: on either backend, the surface after a clear holds exactly what the
\* draw calls made since (the six shape operations, and getContext for the
\* nodes) give on an empty surface: nothing when there were none.
C8_ClearThenReplay ==
    /\ SvgOnly => svg = SvgReplay(<<>>, history.svg, descriptor)
    /\ (\A k \in DOMAIN history.canvas : history.canvas[k].op \in ShapeOps) =>
         pixels = CanvasReplay(Running(NewContext, <<>>), history.canvas, descriptor)

\* ------------------------------------------------------------------- C9

\* C9: a draw call of the canvas module, a shape function or draw itself,
\* strokes if and only if the descriptor has a lineColor and its lineWidth
\* is not 0 (no descriptor: no stroke).  When it strokes, lineWidth, lineJoin and lineCap are assigned
\* before stroke() and the stroke is painted with the descriptor's values or
\* the defaults 1, 'round', 'butt' (lineWidth: for a descriptor whose
\* lineWidth is absent or a positive number).  A lineWidth of 0 does not
\* keep the fill from being painted.
C9_StrokeIffLineColorAndWidth ==
    LastIs("canvas", ShapeOps \cup {"draw"}) =>
        /\ Issued("stroke") <=>
             (descriptor.lineColor # NoColor /\ descriptor.lineWidth # Num(0))
        /\ Issued("stroke") =>
             LET k     == CHOOSE i \in Places("stroke") : TRUE
                 paint == pixels[Len(pixels)]
             IN /\ Cardinality(Places("stroke")) = 1
                /\ k = Len(last.cmds)
                /\ \A prop \in {"lineWidth", "lineJoin", "lineCap"} :
                     \E i \in Assigned(prop) : i < k
                /\ paint.kind = "stroke"
                /\ descriptor.lineWidth = Undef => paint.lineWidth = Num(1)
                /\ (descriptor.lineWidth.t = "number" /\ descriptor.lineWidth.v > 0) =>
                     paint.lineWidth = descriptor.lineWidth
                /\ paint.lineJoin = (IF descriptor.lineJoin = Undefined
                                     THEN "round" ELSE descriptor.lineJoin)
                /\ paint.lineCap = (IF descriptor.lineCap = Undefined
                                    THEN "butt" ELSE descriptor.lineCap)
                /\ ctx.lineWidth = paint.lineWidth
                /\ ctx.lineJoin = paint.lineJoin
                /\ ctx.lineCap = paint.lineCap
        /\ (descriptor.lineWidth = Num(0) /\ descriptor.fillColor # NoColor) =>
             Issued("fill")

\* ------------------------------------------------------------------ C10

\* C10: a draw call of the canvas module, a shape function or draw itself,
\* fills if and only if the descriptor has a fillColor (no descriptor: no
\* fill), after assigning fillStyle, and when it both fills and strokes, the
\* fill comes before the stroke.
C10_FillIffFillColorAndFirst ==
    LastIs("canvas", ShapeOps \cup {"draw"}) =>
        /\ Issued("fill") <=> descriptor.fillColor # NoColor
        /\ Cardinality(Places("fill")) <= 1
        /\ \A f \in Places("fill") : \A s \in Places("stroke") : f < s
        /\ \A f \in Places("fill") : \E i \in Assigned("fillStyle") : i < f

\* ------------------------------------------------------------------ C11

\* The backend a host's answers select: svg before canvas, and none when
\* neither module reports support.
FirstSupported(h) ==
    IF h.hasFeature THEN "svg"
    ELSE IF h.context2d = "context" THEN "canvas"
    ELSE "none"

\* C11: the selection is untested until the first query.  The first query
\* probes isSupported of the svg module first and of the canvas module after
\* it, never one twice, and selects the first that reports support: svg when
\* both do, none when neither does.  The selection is kept: every later
\* query returns it and makes no probe, whatever the host answers by then.
C11_SelectionProbedOnceAndCached ==
    [][/\ (queries' < queries /\ host' = host) =>
            /\ selection' # "untested"
            /\ answers' = Append(answers, selection')
            /\ selection = "untested" =>
                 /\ selection' = FirstSupported(host)
                 /\ probes' \in {<<"svg">>, <<"svg", "canvas">>}
                 /\ "canvas" \in {probes'[k] : k \in DOMAIN probes'} <=> ~host.hasFeature
       /\ selection = "untested" => probes = <<>> /\ answers = <<>>
       /\ selection # "untested" => selection' = selection /\ probes' = probes
      ]_vars

\* ------------------------------------------------------------------ C12

\* C12: with the selection resolved to none, every draw call fails with a
\* ConfigurationError and leaves the surface as it was.
C12_NoneFailsDrawCalls ==
    [][(selection = "none" /\ JustMade("svg", ShapeOps)) =>
            /\ last'.threw = "ConfigurationError"
            /\ svg' = svg
      ]_vars

\* ------------------------------------------------------------------ C13

\* C13: a draw call of the svg module that is given an element, with or
\* without a descriptor, completes and writes all five presentation
\* attributes on the node, with or without a line colour:
\* fill and stroke are 'none' exactly when the colour is absent, and
\* stroke-width, stroke-linejoin, stroke-linecap are the descriptor's values
\* or the defaults 1, 'round', 'butt'.  circle also writes cx, cy, r as
\* given; circle(surface, 50, 50, 10, {fillColor:'#ff0000',
\* lineColor:'#000000', lineWidth:2}) gives cx=50, cy=50, r=10,
\* stroke-width=2, stroke-linejoin=round, stroke-linecap=butt.
C13_FiveAttributesAlwaysWritten ==
    ShapeOnElement(ShapeOps) =>
        LET attrs == svg[last.call.target].attrs
        IN /\ last.threw = ""
           /\ attrs["fill"] # NoColorAttr
           /\ attrs["stroke"] # NoColorAttr
           /\ attrs["fill"] = None <=> descriptor.fillColor = NoColor
           /\ attrs["stroke"] = None <=> descriptor.lineColor = NoColor
           /\ attrs["stroke-width"] =
                (IF descriptor.lineWidth = Undef THEN Num(1) ELSE descriptor.lineWidth)
           /\ attrs["stroke-linejoin"] =
                (IF descriptor.lineJoin = Undefined THEN "round" ELSE descriptor.lineJoin)
           /\ attrs["stroke-linecap"] =
                (IF descriptor.lineCap = Undefined THEN "butt" ELSE descriptor.lineCap)
           /\ last.call.op = "circle" =>
                /\ attrs["cx"] = Num(last.call.args[1])
                /\ attrs["cy"] = Num(last.call.args[2])
                /\ attrs["r"] = Num(last.call.args[3])
           /\ (last.call.op = "circle" /\ last.call.args = <<50, 50, 10>>
                 /\ descriptor = RedOnBlack) =>
                /\ attrs["cx"] = Num(50) /\ attrs["cy"] = Num(50) /\ attrs["r"] = Num(10)
                /\ attrs["stroke-width"] = Num(2)
                /\ attrs["stroke-linejoin"] = "round"
                /\ attrs["stroke-linecap"] = "butt"

\* ------------------------------------------------------------------ C14

\* The string "x1 y1,x2 y2,...,xn yn" for the even-length list a, as the
\* sequence of its tokens: the empty string for the empty list.
PointsOf(a) ==
    [k \in 1 .. (IF a = <<>> THEN 0 ELSE 2 * Len(a) - 1) |->
        LET j == (k - 1) \div 4 + 1
        IN CASE k % 4 = 1 -> Num(a[2 * j - 1])
             [] k % 4 = 2 -> Space
             [] k % 4 = 3 -> Num(a[2 * j])
             [] OTHER     -> Comma]

\* C14: polyline and polygon of the svg module, given an element and a
\* coordinate list of even length, set the points attribute to "x1 y1,x2 y2,...,xn yn": one
\* 'x y' group per pair in list order, a single comma between groups, none
\* before the first or after the last, and the empty string for the empty
\* list.
C14_PointsString ==
    (ShapeOnElement({"polyline", "polygon"}) /\ Len(last.call.args) % 2 = 0) =>
        LET points == svg[last.call.target].attrs["points"]
        IN /\ points.set
           /\ points.str = PointsOf(last.call.args)
           /\ last.call.args = <<>> => points.str = <<>>
           /\ points.str # <<>> =>
                points.str[1] # Comma /\ points.str[Len(points.str)] # Comma

\* polygon given four pairs: the points attribute is
\* "0 0,10 0,10 10,0 10", fifteen tokens with three commas.
C14_Witness ==
    /\ LastIs("svg", {"polygon"})
    /\ last.threw = ""
    /\ last.call.args = <<0, 0, 10, 0, 10, 10, 0, 10>>
    /\ svg[last.call.target].attrs["points"].str =
         <<Num(0), Space, Num(0), Comma, Num(10), Space, Num(0), Comma,
           Num(10), Space, Num(10), Comma, Num(0), Space, Num(10)>>

\* ------------------------------------------------------------------ C15

\* The element types of the children, in document order.
TypesOf(children) == [j \in DOMAIN children |-> children[j].type]

\* The node-creating calls made on the surface since it was last cleared or
\* emptied, in the order they were made.
Created ==
    LET IsGetContext(c) == c.op = "getContext"
    IN SelectSeq(history.svg, IsGetContext)

\* C15: a node getContext creates becomes the last child of its parent, so
\* the children created by a sequence of calls of the svg module stand in
\* document order in the order of the calls, after whatever the parent held
\* before; and no node-creating or shape call reorders or removes the
\* children there are.
C15_DocumentOrderIsCallOrder ==
    /\ [](SvgOnly =>
            /\ Len(Created) <= Len(svg)
            /\ \A k \in DOMAIN Created :
                 svg[Len(svg) - Len(Created) + k].type = Created[k].type)
    /\ [][/\ JustMade("svg", {"getContext"}) =>
               /\ svg' = Append(svg, svg'[Len(svg')])
               /\ svg'[Len(svg')].type = last'.call.type
          /\ JustMade("svg", ShapeOps) => TypesOf(svg') = TypesOf(svg)
         ]_vars

\* A circle node and then a polygon node created, and the first one drawn
\* on afterwards: the circle is still the first child.
C15_Witness ==
    /\ LastIs("svg", ShapeOps)
    /\ last.call.target = 1
    /\ TypesOf(svg) = <<"circle", "polygon">>
    /\ Len(Created) = 2
    /\ Created[1].type = "circle"

\* ------------------------------------------------------------------ C16

\* The ids of the requests whose callback has been invoked.
FiredIds == {fired[k].id : k \in DOMAIN fired}

\* The ids of the requests whose timeout is pending.
PendingIds == {x.id : x \in timers}

\* C16: on the timer polyfill, requestAnimation returns an id of its own for
\* every request; a callback is invoked at most once per request; a request
\* cancelled by its id before its timeout fires is never invoked; and
\* cancelling one id leaves the timeouts of the other requests pending.
C16_CancelPreventsOnlyItsCallback ==
    /\ [](/\ \A x, y \in timers : x.id = y.id => x = y
          /\ \A i, j \in DOMAIN fired : fired[i].id = fired[j].id => i = j
          /\ FiredIds \cap cancels = {}
          /\ PendingIds \cap (cancels \cup FiredIds) = {}
          /\ PendingIds \cup cancels \cup FiredIds = 1 .. (nextId - 1))
    /\ [][/\ nextId' > nextId =>
               /\ PendingIds' = PendingIds \cup {nextId}
               /\ nextId \notin PendingIds \cup cancels \cup FiredIds
          /\ cancels' # cancels =>
               /\ Cardinality(cancels' \ cancels) = 1
               /\ PendingIds' = PendingIds \ (cancels' \ cancels)
               /\ timers' \subseteq timers
               /\ fired' = fired
         ]_vars

\* Two requests made, the first cancelled while pending: the callback of the
\* second was invoked when its timeout fired, the first one's never.
C16_Witness ==
    /\ cancels = {1}
    /\ FiredIds = {2}
    /\ timers = {}
    /\ clock > Epoch

\* ------------------------------------------------------------------ C17

\* The invocations k of the debounced function for which P(k) holds, in
\* order, each as the invocation of func it stands for: made delay ms after
\* it, with its this-value and its arguments.
CallsFor(P(_), delay) ==
    LET sel == SelectSeq([k \in DOMAIN invoked |-> k], P)
    IN [j \in DOMAIN sel |->
          [at   |-> invoked[sel[j]].at + delay,
           me   |-> invoked[sel[j]].me,
           args |-> invoked[sel[j]].args]]

\* Invocation k is the last of a burst: the next one, if any, came wait ms
\* after it or later.
EndsBurst(k) ==
    k = Len(invoked) \/ invoked[k + 1].at - invoked[k].at >= wait

\* Invocation k is the last of a burst whose wait has passed.
BurstOver(k) ==
    EndsBurst(k) /\ (k = Len(invoked) => timers = {})

\* C17 as stated: with immediate not set, func is invoked for the last
\* invocation of every burst (invocations less than wait ms apart) and for
\* no other: once, wait ms after that invocation, with its this-value and
\* its arguments.  While the wait of the last invocation has not passed, its
\* timeout is the one pending and is due wait ms after it.  So func is never
\* invoked more often than the debounced function.
C17_TrailingEdgeOncePerBurst ==
    ~immediate =>
        /\ applied = CallsFor(BurstOver, wait)
        /\ Len(applied) <= Len(invoked)
        /\ timers # {} =>
             /\ invoked # <<>>
             /\ timers = {[id  |-> timeout.v,
                           due |-> invoked[Len(invoked)].at + wait,
                           fn  |-> [me   |-> invoked[Len(invoked)].me,
                                    args |-> invoked[Len(invoked)].args]]}
             /\ invoked[Len(invoked)].at + wait >= clock

\* C17, amended: with immediate not set, func is invoked only when the host
\* runs the timeout an invocation set, which is wait ms after that
\* invocation or later, and every invocation clears the timeout of the one
\* before it if the host has not run it yet.  So func is invoked at most
\* once per invocation, in their order, with the this-value and arguments of
\* that invocation, not before wait ms have passed since it and not after
\* the next invocation; never for an invocation followed by another less
\* than wait ms later; and once no timeout is pending, the last call of func
\* is the one for the last invocation.  The only timeout pending is the one
\* of the last invocation.
C17_TrailingEdgeWhenTimeoutRuns ==
    ~immediate =>
        /\ Len(applied) <= Len(invoked)
        /\ \A j \in DOMAIN applied :
             LET k == applied[j].args[1]
             IN /\ k \in DOMAIN invoked
                /\ applied[j].me = invoked[k].me
                /\ applied[j].args = invoked[k].args
                /\ applied[j].at >= invoked[k].at + wait
                /\ k < Len(invoked) =>
                     /\ applied[j].at <= invoked[k + 1].at
                     /\ invoked[k + 1].at - invoked[k].at >= wait
                /\ j > 1 => applied[j - 1].args[1] < k
        /\ timers # {} =>
             /\ invoked # <<>>
             /\ timers = {[id  |-> timeout.v,
                           due |-> invoked[Len(invoked)].at + wait,
                           fn  |-> [me   |-> invoked[Len(invoked)].me,
                                    args |-> invoked[Len(invoked)].args]]}
        /\ (timers = {} /\ invoked # <<>>) =>
             /\ applied # <<>>
             /\ applied[Len(applied)].args = invoked[Len(invoked)].args

\* wait 2: a second invocation made 3 ms after the first, while the timeout
\* of the first was due and had not run, and the timeout of the second run
\* late.  func was invoked once, for the second invocation, more than 2 ms
\* after it.
C17_Witness ==
    /\ ~immediate
    /\ wait = 2
    /\ Len(invoked) = 2
    /\ invoked[2].at - invoked[1].at = 3
    /\ invoked[2].pending
    /\ timers = {}
    /\ Len(applied) = 1
    /\ applied[1].args = <<2>>
    /\ applied[1].me = "b"
    /\ applied[1].at > invoked[2].at + 2

\* ------------------------------------------------------------------ C18

\* Invocation k was made with no timeout pending.
LeadsBurst(k) == ~invoked[k].pending

\* C18: with immediate set, func is invoked on the leading edge: within
\* every invocation of the debounced function made while no timeout is
\* pending, with its this-value and arguments, and at no other time, so
\* never when the timeout fires and never within an invocation made while a
\* timeout is pending.  An invocation with no timeout pending is the first
\* one or comes wait ms or more after the one before it.  Every invocation
\* sets the timeout anew, wait ms from then.
C18_LeadingEdgeOnly ==
    immediate =>
        /\ applied = CallsFor(LeadsBurst, 0)
        /\ \A k \in DOMAIN invoked :
             ~invoked[k].pending =>
                 k = 1 \/ invoked[k].at - invoked[k - 1].at >= wait
        /\ timers # {} =>
             /\ invoked # <<>>
             /\ \A x \in timers :
                  x.id = timeout.v /\ x.due = invoked[Len(invoked)].at + wait
        /\ (timers = {} /\ invoked # <<>>) => timeout = Null

\* wait 3, immediate: two invocations 1 ms apart, a third one after the
\* timeout fired, and the timeout fired again.  func was invoked within the
\* first and the third.
C18_Witness ==
    /\ immediate
    /\ wait = 3
    /\ Len(invoked) = 3
    /\ invoked[2].at - invoked[1].at = 1
    /\ invoked[2].pending
    /\ ~invoked[3].pending
    /\ timers = {}
    /\ Len(applied) = 2
    /\ applied[1].args = invoked[1].args /\ applied[1].at = invoked[1].at
    /\ applied[2].args = invoked[3].args /\ applied[2].at = invoked[3].at

\* ------------------------------------------------------------------ C19

\* C19: after extendObject(objA, objB, overwriteProperties), objA has every
\* own property of objB.  With overwriteProperties omitted or true each of
\* them has objB's value; with overwriteProperties false a property objA
\* already had keeps its value and only the others are added.  The
\* properties of objA that objB does not have, and objB, are as before.
C19_ExtendObject ==
    (pc = "done" /\ Len(given) = 3) =>
        LET A0 == heap0[given[1].v].props
            B0 == heap0[given[2].v].props
            A  == heap[given[1].v].props
            B  == heap[given[2].v].props
        IN /\ \A k \in Keys : B0[k] # Absent => A[k] # Absent
           /\ given[3] # Bool(FALSE) =>
                \A k \in Keys : B0[k] # Absent => A[k] = B0[k]
           /\ given[3] = Bool(FALSE) =>
                \A k \in Keys : B0[k] # Absent =>
                    A[k] = (IF A0[k] # Absent THEN A0[k] ELSE B0[k])
           /\ \A k \in Keys : B0[k] = Absent => A[k] = A0[k]
           /\ B = B0

RECURSIVE SameStructure(_, _, _, _), Reach(_, _)

\* Value v1 of heap h1 and value v2 of heap h2 are structurally equal: the
\* same primitive, or objects of the same kind with the same own keys, the
\* same array length and structurally equal values under each key.
SameStructure(h1, v1, h2, v2) ==
    IF v1.t # "ref" \/ v2.t # "ref" THEN v1 = v2
    ELSE LET o1 == h1[v1.v]
             o2 == h2[v2.v]
         IN /\ o1.kind = o2.kind
            /\ o1.length = o2.length
            /\ o1.time = o2.time
            /\ \A k \in AllKeys :
                 IF o1.props[k] = Absent \/ o2.props[k] = Absent
                 THEN o1.props[k] = o2.props[k]
                 ELSE SameStructure(h1, o1.props[k], h2, o2.props[k])

\* The addresses of the objects value v of heap h is made of.
Reach(h, v) ==
    IF v.t # "ref" THEN {}
    ELSE {v.v} \cup UNION {Reach(h, h[v.v].props[k]) :
                             k \in {j \in AllKeys : h[v.v].props[j] # Absent}}

\* C20: cloneObject(obj) returns a value structurally equal to obj (same own
\* keys, array lengths and leaf values) made only of objects that did not
\* exist before the call, and leaves every object that existed unchanged; a
\* later change to an object of the clone leaves obj as it was, and a later
\* change to an object of obj leaves the clone equal to obj as it was.
C20_CloneIsDeepAndIndependent ==
    (Len(given) = 1 /\ pc # "ready") =>
        /\ pc = "done" =>
             /\ SameStructure(heap, result, heap0, given[1])
             /\ Reach(heap, result) \cap DOMAIN heap0 = {}
             /\ \A r \in DOMAIN heap0 : heap[r] = heap0[r]
             /\ given[1].t # "ref" => result = given[1]
        /\ pc = "copy changed" =>
             /\ \A r \in DOMAIN heap0 : heap[r] = heap0[r]
             /\ SameStructure(heap, given[1], heap0, given[1])
        /\ pc = "obj changed" =>
             /\ SameStructure(heap, result, heap0, given[1])

\* A nested value (an object holding an object and an array that holds an
\* object) has been cloned and an object nested in the clone changed since.
C20_Witness ==
    /\ Len(given) = 1
    /\ pc = "copy changed"
    /\ Len(heap0) = 4
    /\ Len(heap) = 8
    /\ \E r \in Reach(heap, result) \ {result.v} : heap[r].props["a"] = Num(9)

\* ------------------------------------------------------------------ C21

\* The values the test helper shouldThrowErrorIfNotNumber expects to be
\* rejected (test/util.js:41-57) and to be accepted (83-89, 99, 109-115),
\* as far as the inputs drawn hold them: v is the value and o the object it
\* refers to, if it is a reference.
ExpectedToThrow(v, o) ==
    \/ v \in {NaN, Null, Undef, Infinity(1), Infinity(-1)}
    \/ v.t = "string" /\ Strings[v.v] \in {"", "1", " ", "0", "foo"}
    \/ v.t = "ref" /\ o \in {Obj(Absent, Absent), Arr(Absent, Absent), Arr(Num(1), Absent)}

ExpectedNotToThrow(v) == v \in {Num(-1), Num(0), Num(1)}

\* C21: isNumber(n) is true exactly when n is of number type and finite:
\* false for NaN, Infinity, -Infinity, null, undefined, objects, arrays and
\* every string, true for every finite number; it rejects every value the
\* test helper expects to throw and accepts every value it expects not to.
C21_IsNumberExactlyFiniteNumbers ==
    (pc = "done" /\ Len(given) = 1) =>
        LET n == given[1]
            o == IF n.t = "ref" THEN heap[n.v] ELSE NewObject
        IN /\ result \in {Bool(TRUE), Bool(FALSE)}
           /\ result = Bool(TRUE) <=> n \in {Num(i) : i \in -MaxNumber..MaxNumber}
           /\ n.t \in {"NaN", "infinity", "null", "undefined", "ref", "string"} =>
                result = Bool(FALSE)
           /\ ExpectedToThrow(n, o) => result = Bool(FALSE)
           /\ ExpectedNotToThrow(n) => result = Bool(TRUE)

\* isNumber has been given the numeric string '10' and has answered false.
C21_Witness ==
    /\ pc = "done"
    /\ Len(given) = 1
    /\ given[1].t = "string"
    /\ Strings[given[1].v] = "10"
    /\ result = Bool(FALSE)

\* ------------------------------------------------------------------ C22

\* C22: no draw call of either backend mutates the style descriptor it is
\* given: after every shape operation (and draw of the canvas module) the
\* descriptor has the same fields with the same values as before, whether
\* the call returned or threw.
C22_DescriptorNotMutated ==
    [][(JustMade("svg", ShapeOps) \/ JustMade("canvas", ShapeOps \cup {"draw"}))
          => descriptor' = descriptor]_vars

\* A canvas shape has been filled and stroked from a descriptor that leaves
\* the line width, the join and the cap out and gives a fill opacity: the
\* context holds the defaults and the resolved colour, the descriptor the
\* fields it had.
C22_Witness ==
    /\ LastIs("canvas", ShapeOps)
    /\ last.drew
    /\ last.threw = ""
    /\ descriptor.fillColor = Hex(255, 0, 0)
    /\ descriptor.fillOpacity = Num(30)
    /\ descriptor.lineColor = Hex(0, 0, 0)
    /\ descriptor.lineWidth = Undef
    /\ descriptor.lineJoin = Undefined
    /\ descriptor.lineCap = Undefined
    /\ ctx.lineWidth = Num(1)
    /\ ctx.lineJoin = "round"
    /\ ctx.fillStyle = toRGBA(Hex(255, 0, 0), Num(30))

\* ------------------------------------------------------------------ C23

\* The point <<px, py>> lies off the anchor by dx horizontally or by dy
\* vertically, and by nothing in the other direction.
OffsetFrom(px, py, anchor, dx, dy) ==
    \/ py = anchor[2] /\ (px.v - anchor[1].v = dx \/ anchor[1].v - px.v = dx)
    \/ px = anchor[1] /\ (py.v - anchor[2].v = dy \/ anchor[2].v - py.v = dy)

\* C23: the canvas ellipse(ctx, cx, cy, rx, ry) begins a fresh path, moves
\* to (cx-rx, cy) and traces exactly four cubic Bezier segments that end at
\* (cx, cy-ry), (cx+rx, cy), (cx, cy+ry) and (cx-rx, cy); each control point
\* lies off its anchor by rx*0.5522848 horizontally or ry*0.5522848
\* vertically, so for rx = ry = r by r*0.5522848 (coordinates in 1/Scale).
C23_EllipseFourBezierSegments ==
    LastIs("canvas", {"ellipse"}) =>
        LET a      == last.call.args
            cx     == a[1] * Scale
            cy     == a[2] * Scale
            rx     == a[3] * Scale
            ry     == a[4] * Scale
            cmds   == last.cmds
            anchor == <<<<Num(cx - rx), Num(cy)>>, <<Num(cx), Num(cy - ry)>>,
                        <<Num(cx + rx), Num(cy)>>, <<Num(cx), Num(cy + ry)>>,
                        <<Num(cx - rx), Num(cy)>>>>
        IN /\ Len(cmds) >= 6
           /\ cmds[1] = Cmd("beginPath", "", <<>>)
           /\ cmds[2] = Cmd("moveTo", "", anchor[1])
           /\ {i \in DOMAIN cmds : cmds[i].cmd = "bezierCurveTo"} = 3..6
           /\ \A i \in DOMAIN cmds : cmds[i].cmd \in {"moveTo", "beginPath"} => i <= 2
           /\ \A k \in 1..4 :
                LET c == cmds[k + 2].args
                IN /\ <<c[5], c[6]>> = anchor[k + 1]
                   /\ OffsetFrom(c[1], c[2], anchor[k], a[3] * Kappa, a[4] * Kappa)
                   /\ OffsetFrom(c[3], c[4], anchor[k + 1], a[3] * Kappa, a[4] * Kappa)
                   /\ a[3] = a[4] =>
                        /\ OffsetFrom(c[1], c[2], anchor[k], a[3] * Kappa, a[3] * Kappa)
                        /\ OffsetFrom(c[3], c[4], anchor[k + 1], a[3] * Kappa, a[3] * Kappa)
           /\ cmds[3].args = <<Num(cx - rx), Num(cy - a[4] * Kappa),
                               Num(cx - a[3] * Kappa), Num(cy - ry),
                               Num(cx), Num(cy - ry)>>

\* ellipse(ctx, 5, 6, 2, 1) has traced its path: the radii differ, the first
\* segment ends at the top of the ellipse.
C23_Witness ==
    /\ LastIs("canvas", {"ellipse"})
    /\ last.call.args = <<5, 6, 2, 1>>
    /\ Len(last.cmds) >= 6
    /\ last.cmds[3].cmd = "bezierCurveTo"
    /\ last.cmds[3].args[5] = Num(5 * Scale)
    /\ last.cmds[3].args[6] = Num(5 * Scale)

\* ------------------------------------------------------------------ C24

\* C24: isRectInViewport(rect, margin) returns for each edge the amount, never
\* negative, by which the rect enlarged by margin on every side reaches
\* beyond that side of the viewport [0,w]x[0,h]; a value is 0 exactly when
\* the edge does not lie beyond its side; all four are 0 if and only if the
\* enlarged rect (its four corners) is contained in the viewport; a margin
\* left out behaves as margin 0.
C24_OverlapPerEdge ==
    (pc = "done" /\ Len(given) = 3) =>
        LET rect == given[1]
            m == IF given[2] = Undef THEN 0 ELSE given[2].v
            w == given[3].w
            h == given[3].h
            t == rect.top - m
            r == rect.right + m
            b == rect.bottom + m
            l == rect.left - m
            Contained == \A x \in {l, r}, y \in {t, b} :
                            0 <= x /\ x <= w /\ 0 <= y /\ y <= h
        IN /\ result.top >= 0 /\ result.right >= 0
           /\ result.bottom >= 0 /\ result.left >= 0
           /\ result.top = (IF t < 0 THEN 0 - t ELSE 0)
           /\ result.right = (IF r > w THEN r - w ELSE 0)
           /\ result.bottom = (IF b > h THEN b - h ELSE 0)
           /\ result.left = (IF l < 0 THEN 0 - l ELSE 0)
           /\ result.top = 0 <=> t >= 0
           /\ result.right = 0 <=> r <= w
           /\ result.bottom = 0 <=> b <= h
           /\ result.left = 0 <=> l >= 0
           /\ (result.top = 0 /\ result.right = 0 /\ result.bottom = 0
                 /\ result.left = 0) <=> Contained
           /\ given[2] = Undef =>
                result = isRectInViewport(rect, Num(0), w, h)

\* A rect inside the viewport whose margin of 3 carries it over the top and
\* the left side only.
C24_Witness ==
    /\ pc = "done"
    /\ Len(given) = 3
    /\ given[1] = [top |-> 2, right |-> 2, bottom |-> 2, left |-> 2]
    /\ given[2] = Num(3)
    /\ result = [top |-> 1, right |-> 0, bottom |-> 0, left |-> 1]

\* ------------------------------------------------------------------ C25

\* The time request id was set for, as far as it is still known: the due
\* time of its pending timeout or the argument its callback was given.
TargetsOf(id) ==
    {x.due : x \in {y \in timers : y.id = id}}
    \cup {fired[i].arg : i \in {j \in DOMAIN fired : fired[j].id = id}}

\* C25: on the timer fallback the time a request is set for is the larger of
\* the current time and the time the previous request was set for plus 16,
\* also for requests made at the same clock time; lastTime never decreases,
\* and the times of two consecutive requests are at least 16 ms apart, so
\* no two requests are set for the same frame.
C25_FrameTargetsSpaced ==
    /\ [](\A i \in 1 .. (nextId - 1), j \in 1 .. (nextId - 1) :
            i < j => \A ti \in TargetsOf(i), tj \in TargetsOf(j) :
                        tj - ti >= FrameMs * (j - i))
    /\ [][/\ lastTime' >= lastTime
          /\ nextId' # nextId =>
               /\ lastTime' = Max(clock, lastTime + FrameMs)
               /\ lastTime' - lastTime >= FrameMs
               /\ \E x \in timers' \ timers :
                    /\ x.id = nextId
                    /\ x.due = lastTime'
                    /\ x.fn.arg = lastTime']_vars

\* Two requests made at the same clock time, before any time passed: the
\* first is set for now, the second 16 ms later.
C25_Witness ==
    /\ clock = Epoch
    /\ \E x \in timers, y \in timers :
         /\ x.id = 1 /\ y.id = 2
         /\ x.due = Epoch
         /\ y.due = Epoch + FrameMs
    /\ lastTime = Epoch + FrameMs

\* ------------------------------------------------------------------ C26

\* C26: in every host environment (any combination of the native and the
\* prefixed request and cancel functions) the dom module resolves raf and
\* caf to a matched pair: both native, both of the same vendor prefix, or
\* both the timer fallback.
C26_MatchedPair ==
    (pc = "done" /\ Len(given) = 2) => result.raf.from = result.caf.from

\* ------------------------------------------------------------------ C27

\* The path commands among the context commands of a call, in order: the
\* geometry the call traced.
OwnPath(cmds) ==
    LET IsPathCmd(c) == c.cmd \in {"moveTo", "lineTo", "rect", "arc",
                                   "bezierCurveTo", "closePath"}
    IN SelectSeq(cmds, IsPathCmd)

\* C27: no path state is carried from one canvas shape call to the next: a
\* shape call that uses the context calls beginPath first, before any path
\* command, and never again, so every fill and stroke it makes paints the
\* geometry traced by that call and nothing traced by an earlier call, after
\* any sequence of calls on the same context.
C27_FreshPathPerCall ==
    LastIs("canvas", ShapeOps) =>
        LET cmds   == last.cmds
            paints == Cardinality({i \in DOMAIN cmds : cmds[i].cmd \in {"fill", "stroke"}})
        IN /\ cmds # <<>> => cmds[1] = Cmd("beginPath", "", <<>>)
           /\ \A i \in DOMAIN cmds : cmds[i].cmd = "beginPath" => i = 1
           /\ cmds # <<>> => ctx.path = OwnPath(cmds)
           /\ paints <= Len(pixels)
           /\ \A k \in (Len(pixels) - paints + 1) .. Len(pixels) :
                pixels[k].path = OwnPath(cmds)

\* A line stroked on a context on which a circle had been traced before: the
\* stroke paints the two commands of the line only.
C27_Witness ==
    /\ LastIs("canvas", {"line"})
    /\ Len(history.canvas) >= 2
    /\ history.canvas[1].op = "circle"
    /\ \E i \in DOMAIN last.cmds : last.cmds[i].cmd = "stroke"
    /\ pixels # <<>>
    /\ Len(pixels[Len(pixels)].path) = 2
    /\ pixels[Len(pixels)].path[2].cmd = "lineTo"

====
